---- MODULE Spec2Model ----
(***************************************************************************)
(* prisma-joi-generator: configuration parsing (types.ts), the file type   *)
(* registry (registry.ts), the Transformer's process-wide registries       *)
(* (transformer.ts) and the generate() driver (prisma-generator.ts).       *)
(*                                                                         *)
(* Strings the code only compares are TLA+ strings.  A comma-separated     *)
(* list value is the sequence of its segments (what split(',') returns),   *)
(* so <<"">> is the empty string and <<>> an absent key.  A directory name *)
(* is the sequence of its characters, so that the directory regex is       *)
(* evaluated and not assumed.                                              *)
(***************************************************************************)
EXTENDS Integers, Sequences, FiniteSets, TLC

(***************************************************************************)
(* Bounds of the model.                                                    *)
(***************************************************************************)
\* generate() invocations explored in one process
MaxRuns == 2

\* candidates of one field
MaxCandidates == 2

\* input object types in one description
MaxObjects == 2

(***************************************************************************)
(* types.ts: kinds, defaults                                               *)
(***************************************************************************)
Undefined == "undefined"

\* supportedTypes, in the order parseGeneratorConfig walks them
supportedTypes ==
  <<"create", "update", "upsert", "unchecked", "filter", "orderBy",
    "aggregate", "groupBy", "find", "delete", "enums", "objects">>

SeqToSet(s) == {s[i] : i \in 1..Len(s)}

JoiFileType == SeqToSet(supportedTypes)

validFileTypes == JoiFileType

FilterStrategies == {"whitelist", "blacklist", "selective"}

DirectoryStrategies == {"flat", "grouped", "by-model"}

DirectoryKeys == <<"base", "objects", "enums", "models">>

DEFAULT_CONFIG ==
  [ filterStrategy    |-> "selective",
    directoryStrategy |-> "grouped",
    includeTypes      |-> <<>>,
    excludeTypes      |-> <<>>,
    fileTypes         |-> [k \in JoiFileType |-> TRUE],
    directories       |-> [ base    |-> <<"s","c","h","e","m","a","s">>,
                            objects |-> <<"o","b","j","e","c","t","s">>,
                            enums   |-> <<"e","n","u","m","s">>,
                            models  |-> <<"m","o","d","e","l","s">> ],
    generateTypes     |-> TRUE,
    generateIndex     |-> TRUE,
    naming            |-> [ schemaFiles |-> "{operation}.schema",
                            objectFiles |-> "{name}.schema",
                            enumFiles   |-> "{name}.schema" ] ]

(***************************************************************************)
(* types.ts: string helpers                                                *)
(***************************************************************************)
\* JavaScript truthiness of an optional string value
Truthy(s) == s \notin {Undefined, ""}

\* value.toLowerCase().trim() on the literals the model supplies
LowerTrim(s) ==
  CASE s = "TRUE"  -> "true"
    [] s = "True"  -> "true"
    [] s = " yes " -> "yes"
    [] s = "YES"   -> "yes"
    [] s = "FALSE" -> "false"
    [] s = "No"    -> "no"
    [] s = " 0 "   -> "0"
    [] OTHER       -> s

BooleanOk(s) == LowerTrim(s) \in {"true", "1", "yes", "false", "0", "no"}

parseBooleanString(s) == LowerTrim(s) \in {"true", "1", "yes"}

\* s.trim() on a list segment
TrimSegment(s) ==
  CASE s = " create" -> "create"
    [] s = "find "   -> "find"
    [] s = " "       -> ""
    [] OTHER         -> s

RECURSIVE FilterNonEmpty(_)
FilterNonEmpty(segs) ==
  IF segs = <<>> THEN <<>>
  ELSE IF TrimSegment(Head(segs)) = "" THEN FilterNonEmpty(Tail(segs))
       ELSE <<TrimSegment(Head(segs))>> \o FilterNonEmpty(Tail(segs))

\* split(',').map(trim).filter(Boolean)
parseCommaSeparatedTypes(segs) == FilterNonEmpty(segs)

\* truthiness of a raw list value: absent and the empty string are falsy
ListTruthy(segs) == segs # <<>> /\ segs # <<"">>

LowerChars == {"a","b","c","d","e","f","g","h","i","j","k","l","m",
               "n","o","p","q","r","s","t","u","v","w","x","y","z"}
UpperChars == {"A","B","C","D","E","F","G","H","I","J","K","L","M",
               "N","O","P","Q","R","S","T","U","V","W","X","Y","Z"}
DigitChars == {"0","1","2","3","4","5","6","7","8","9"}

\* /^[a-zA-Z0-9_-]+$/
directoryRegex(name) ==
  /\ Len(name) > 0
  /\ \A i \in 1..Len(name) :
       name[i] \in LowerChars \cup UpperChars \cup DigitChars \cup {"_", "-"}

(***************************************************************************)
(* types.ts: validateJoiGeneratorConfig                                    *)
(***************************************************************************)
ConfigError(msg, field) ==
  [ ok |-> FALSE, error |-> msg, field |-> field,
    filterStrategy |-> Undefined, directoryStrategy |-> Undefined,
    includeTypes |-> <<>>, excludeTypes |-> <<>>,
    fileTypes |-> <<>>, directories |-> <<>>,
    generateTypes |-> FALSE, generateIndex |-> FALSE,
    enabledTypes |-> {} ]

\* { ...DEFAULT_CONFIG, ...config }: a key of config replaces the default whole
MergeDefaults(config) ==
  [ filterStrategy    |-> IF config.filterStrategy # Undefined
                          THEN config.filterStrategy
                          ELSE DEFAULT_CONFIG.filterStrategy,
    directoryStrategy |-> IF config.directoryStrategy # Undefined
                          THEN config.directoryStrategy
                          ELSE DEFAULT_CONFIG.directoryStrategy,
    includeTypes      |-> IF config.hasIncludeTypes THEN config.includeTypes
                          ELSE DEFAULT_CONFIG.includeTypes,
    excludeTypes      |-> IF config.hasExcludeTypes THEN config.excludeTypes
                          ELSE DEFAULT_CONFIG.excludeTypes,
    fileTypes         |-> IF config.hasFileTypes THEN config.fileTypes
                          ELSE DEFAULT_CONFIG.fileTypes,
    directories       |-> IF config.hasDirectories THEN config.directories
                          ELSE DEFAULT_CONFIG.directories,
    generateTypes     |-> IF config.hasGenerateTypes THEN config.generateTypes
                          ELSE DEFAULT_CONFIG.generateTypes,
    generateIndex     |-> IF config.hasGenerateIndex THEN config.generateIndex
                          ELSE DEFAULT_CONFIG.generateIndex,
    \* the raw configurations supply no naming pattern
    naming            |-> DEFAULT_CONFIG.naming ]

InvalidTypes(types) == {t \in SeqToSet(types) : t \notin validFileTypes}

\* the switch over validatedConfig.filterStrategy
ComputeEnabledTypes(validatedConfig) ==
  CASE validatedConfig.filterStrategy = "whitelist" ->
         SeqToSet(validatedConfig.includeTypes)
    [] validatedConfig.filterStrategy = "blacklist" ->
         {t \in JoiFileType : t \notin SeqToSet(validatedConfig.excludeTypes)}
    [] validatedConfig.filterStrategy = "selective" ->
         {t \in DOMAIN validatedConfig.fileTypes : validatedConfig.fileTypes[t]}
    [] OTHER -> {}

\* the size check that never fires
NoTypeEnabled_never(enabledTypes) == FALSE

\* enabledTypes.size === 0
NoTypeEnabled(enabledTypes) == enabledTypes = {}

BadDirectoryKeys(config) ==
  IF config.hasDirectories
  THEN {k \in DOMAIN config.directories :
          /\ config.directories[k] # <<>>
          /\ ~directoryRegex(config.directories[k])}
  ELSE {}

validateJoiGeneratorConfig(config) ==
  LET validatedConfig == MergeDefaults(config)
      enabledTypes    == ComputeEnabledTypes(validatedConfig)
  IN
  IF Truthy(config.filterStrategy) /\ config.filterStrategy \notin FilterStrategies
    THEN ConfigError("Invalid filterStrategy", "filterStrategy")
  ELSE IF Truthy(config.directoryStrategy)
          /\ config.directoryStrategy \notin DirectoryStrategies
    THEN ConfigError("Invalid directoryStrategy", "directoryStrategy")
  ELSE IF config.hasIncludeTypes /\ InvalidTypes(config.includeTypes) # {}
    THEN ConfigError("Invalid file types in includeTypes", "includeTypes")
  ELSE IF config.hasExcludeTypes /\ InvalidTypes(config.excludeTypes) # {}
    THEN ConfigError("Invalid file types in excludeTypes", "excludeTypes")
  ELSE IF validatedConfig.filterStrategy = "whitelist"
          /\ (~config.hasIncludeTypes \/ Len(config.includeTypes) = 0)
    THEN ConfigError("includeTypes must be specified and non-empty", "includeTypes")
  ELSE IF validatedConfig.filterStrategy = "blacklist"
          /\ (~config.hasExcludeTypes \/ Len(config.excludeTypes) = 0)
    THEN ConfigError("excludeTypes must be specified and non-empty", "excludeTypes")
  ELSE IF NoTypeEnabled(enabledTypes)
    THEN ConfigError("At least one file type must be enabled", "fileTypes")
  ELSE IF BadDirectoryKeys(config) # {}
    THEN ConfigError("Invalid directory name", "directories")
  ELSE [ ok |-> TRUE, error |-> "", field |-> "",
         filterStrategy    |-> validatedConfig.filterStrategy,
         directoryStrategy |-> validatedConfig.directoryStrategy,
         includeTypes      |-> validatedConfig.includeTypes,
         excludeTypes      |-> validatedConfig.excludeTypes,
         fileTypes         |-> validatedConfig.fileTypes,
         directories       |-> validatedConfig.directories,
         generateTypes     |-> validatedConfig.generateTypes,
         generateIndex     |-> validatedConfig.generateIndex,
         naming            |-> validatedConfig.naming,
         enabledTypes      |-> enabledTypes ]

(***************************************************************************)
(* types.ts: parseGeneratorConfig                                          *)
(***************************************************************************)
\* the per-kind flags that were supplied (generatorConfig[type] !== undefined)
SuppliedFlags(generatorConfig) ==
  {t \in JoiFileType : generatorConfig.flags[t] # Undefined}

\* the directory keys whose raw value is truthy
SuppliedDirectories(generatorConfig) ==
  {k \in SeqToSet(DirectoryKeys) : generatorConfig.directories[k] # <<>>}

\* the object handed to validateJoiGeneratorConfig, before the legacy aliases
ParsedBeforeLegacy(generatorConfig) ==
  [ filterStrategy    |-> IF Truthy(generatorConfig.filterStrategy)
                          THEN generatorConfig.filterStrategy ELSE Undefined,
    directoryStrategy |-> IF Truthy(generatorConfig.directoryStrategy)
                          THEN generatorConfig.directoryStrategy ELSE Undefined,
    hasIncludeTypes   |-> ListTruthy(generatorConfig.includeTypes),
    includeTypes      |-> IF ListTruthy(generatorConfig.includeTypes)
                          THEN parseCommaSeparatedTypes(generatorConfig.includeTypes)
                          ELSE <<>>,
    hasExcludeTypes   |-> ListTruthy(generatorConfig.excludeTypes),
    excludeTypes      |-> IF ListTruthy(generatorConfig.excludeTypes)
                          THEN parseCommaSeparatedTypes(generatorConfig.excludeTypes)
                          ELSE <<>>,
    hasFileTypes      |-> SuppliedFlags(generatorConfig) # {},
    fileTypes         |-> [t \in SuppliedFlags(generatorConfig) |->
                             parseBooleanString(generatorConfig.flags[t])],
    hasDirectories    |-> SuppliedDirectories(generatorConfig) # {},
    directories       |-> [k \in SuppliedDirectories(generatorConfig) |->
                             generatorConfig.directories[k]],
    hasGenerateTypes  |-> generatorConfig.generateTypes # Undefined,
    generateTypes     |-> parseBooleanString(generatorConfig.generateTypes),
    hasGenerateIndex  |-> generatorConfig.generateIndex # Undefined,
    generateIndex     |-> parseBooleanString(generatorConfig.generateIndex) ]

\* legacy enabledTypes / disabledTypes, applied in that order
ApplyLegacyEnabled(generatorConfig, parsedConfig) ==
  IF ListTruthy(generatorConfig.enabledTypes) /\ ~parsedConfig.hasIncludeTypes
  THEN [parsedConfig EXCEPT
          !.hasIncludeTypes = TRUE,
          !.includeTypes = parseCommaSeparatedTypes(generatorConfig.enabledTypes),
          !.filterStrategy = "whitelist"]
  ELSE parsedConfig

ApplyLegacyDisabled(generatorConfig, parsedConfig) ==
  IF ListTruthy(generatorConfig.disabledTypes) /\ ~parsedConfig.hasExcludeTypes
  THEN [parsedConfig EXCEPT
          !.hasExcludeTypes = TRUE,
          !.excludeTypes = parseCommaSeparatedTypes(generatorConfig.disabledTypes),
          !.filterStrategy = "blacklist"]
  ELSE parsedConfig

\* a supplied boolean literal that parseBooleanString rejects
BadBooleans(generatorConfig) ==
  {t \in SuppliedFlags(generatorConfig) : ~BooleanOk(generatorConfig.flags[t])}
  \cup (IF generatorConfig.generateTypes # Undefined
           /\ ~BooleanOk(generatorConfig.generateTypes)
        THEN {"generateTypes"} ELSE {})
  \cup (IF generatorConfig.generateIndex # Undefined
           /\ ~BooleanOk(generatorConfig.generateIndex)
        THEN {"generateIndex"} ELSE {})

parseGeneratorConfig(generatorConfig) ==
  IF BadBooleans(generatorConfig) # {}
  THEN ConfigError("Invalid boolean value", "")
  ELSE validateJoiGeneratorConfig(
         ApplyLegacyDisabled(generatorConfig,
           ApplyLegacyEnabled(generatorConfig,
             ParsedBeforeLegacy(generatorConfig))))

(***************************************************************************)
(* registry.ts: FileTypeRegistry                                           *)
(***************************************************************************)
\* Map insertion order of registerBuiltInTypes (a later register() of the
\* same key keeps its position)
RegistrationOrder ==
  <<"enums", "objects", "find", "create", "update", "upsert", "delete",
    "aggregate", "groupBy", "filter", "orderBy", "unchecked">>

OperationTypes == {"find", "create", "update", "upsert", "delete", "aggregate", "groupBy"}

BuiltInPriority(type) ==
  CASE type = "enums"     -> 1
    [] type = "objects"   -> 2
    [] type = "filter"    -> 3
    [] type = "orderBy"   -> 4
    [] type = "unchecked" -> 5
    [] type = "find"      -> 10
    [] type = "create"    -> 11
    [] type = "update"    -> 12
    [] type = "upsert"    -> 13
    [] type = "delete"    -> 14
    [] type = "aggregate" -> 15
    [] type = "groupBy"   -> 16

BuiltInDependencies(type) ==
  CASE type = "enums"          -> <<>>
    [] type = "objects"        -> <<"enums">>
    [] type \in OperationTypes -> <<"objects", "enums">>
    [] OTHER                   -> <<"enums">>

\* the registry after the constructor ran
registerBuiltInTypes ==
  [type \in JoiFileType |->
     [ priority     |-> BuiltInPriority(type),
       dependencies |-> BuiltInDependencies(type),
       perModel     |-> type \in OperationTypes,
       generator    |-> "builtin" ]]

\* isEnabled: every type is enabled while no config was set
\* isEnabled answering yes whatever the configuration
isEnabled_always(regConfig, type) == TRUE

isEnabled(regConfig, type) ==
  IF ~regConfig.set THEN TRUE ELSE type \in regConfig.enabledTypes

RECURSIVE FilterSeq(_, _)
FilterSeq(s, keep) ==
  IF s = <<>> THEN <<>>
  ELSE IF Head(s) \in keep THEN <<Head(s)>> \o FilterSeq(Tail(s), keep)
       ELSE FilterSeq(Tail(s), keep)

getAllTypes == RegistrationOrder

getEnabledTypes(regConfig) ==
  FilterSeq(getAllTypes, {t \in JoiFileType : isEnabled(regConfig, t)})

\* Array.prototype.sort with (a, b) => priorityA - priorityB: a stable sort
RECURSIVE InsertByPriority(_, _, _)
InsertByPriority(reg, sorted, type) ==
  IF sorted = <<>> THEN <<type>>
  ELSE IF reg[type].priority < reg[Head(sorted)].priority
       THEN <<type>> \o sorted
       ELSE <<Head(sorted)>> \o InsertByPriority(reg, Tail(sorted), type)

RECURSIVE SortByPriority(_, _)
SortByPriority(reg, types) ==
  IF types = <<>> THEN <<>>
  ELSE InsertByPriority(reg, SortByPriority(reg, SubSeq(types, 1, Len(types) - 1)),
                        types[Len(types)])

\* visit() of getGenerationOrder; st carries sorted, processing, processed
\* and whether the circular-dependency error was thrown
RECURSIVE visit(_, _, _, _)
RECURSIVE VisitDependencies(_, _, _, _)
\* visit() pushing the type before its dependencies were visited
visit_pushFirst(reg, enabled, type, st) ==
  IF st.thrown \/ type \in st.processed THEN st
  ELSE IF type \in st.processing THEN [st EXCEPT !.thrown = TRUE]
  ELSE LET after == VisitDependencies(reg, enabled, reg[type].dependencies,
                                      [st EXCEPT !.processing = @ \cup {type},
                                                 !.sorted     = Append(@, type)])
       IN IF after.thrown THEN after
          ELSE [after EXCEPT !.processing = @ \ {type},
                             !.processed  = @ \cup {type}]

\* visit() returning from a type it is still processing instead of throwing
visit_noCycleCheck(reg, enabled, type, st) ==
  IF st.thrown \/ type \in st.processed \/ type \in st.processing THEN st
  ELSE LET after == VisitDependencies(reg, enabled, reg[type].dependencies,
                                      [st EXCEPT !.processing = @ \cup {type}])
       IN IF after.thrown THEN after
          ELSE [after EXCEPT !.processing = @ \ {type},
                             !.processed  = @ \cup {type},
                             !.sorted     = Append(@, type)]

visit(reg, enabled, type, st) ==
  IF st.thrown \/ type \in st.processed THEN st
  ELSE IF type \in st.processing THEN [st EXCEPT !.thrown = TRUE]
  ELSE LET after == VisitDependencies(reg, enabled, reg[type].dependencies,
                                      [st EXCEPT !.processing = @ \cup {type}])
       IN IF after.thrown THEN after
          ELSE [after EXCEPT !.processing = @ \ {type},
                             !.processed  = @ \cup {type},
                             !.sorted     = Append(@, type)]

VisitDependencies(reg, enabled, deps, st) ==
  IF deps = <<>> \/ st.thrown THEN st
  ELSE VisitDependencies(reg, enabled, Tail(deps),
         IF Head(deps) \in SeqToSet(enabled)
         THEN visit(reg, enabled, Head(deps), st)
         ELSE st)

RECURSIVE VisitAll(_, _, _, _)
VisitAll(reg, enabled, types, st) ==
  IF types = <<>> \/ st.thrown THEN st
  ELSE VisitAll(reg, enabled, Tail(types), visit(reg, enabled, Head(types), st))

\* result: [thrown, sorted]
getGenerationOrder(reg, regConfig) ==
  LET enabledTypes   == getEnabledTypes(regConfig)
      prioritySorted == SortByPriority(reg, enabledTypes)
  IN VisitAll(reg, prioritySorted, prioritySorted,
              [sorted |-> <<>>, processing |-> {}, processed |-> {}, thrown |-> FALSE])

\* one error per enabled type and dependency entry that is not enabled
RECURSIVE MissingDependencies(_, _, _)
\* the dependency loop stopping after the first entry
MissingDependencies_firstOnly(type, deps, enabledSet) ==
  IF deps = <<>> THEN <<>>
  ELSE IF Head(deps) \notin enabledSet
       THEN <<[type |-> type, dep |-> Head(deps)]>> ELSE <<>>

MissingDependencies(type, deps, enabledSet) ==
  IF deps = <<>> THEN <<>>
  ELSE (IF Head(deps) \notin enabledSet
        THEN <<[type |-> type, dep |-> Head(deps)]>> ELSE <<>>)
       \o MissingDependencies(type, Tail(deps), enabledSet)

RECURSIVE ValidateEach(_, _, _)
ValidateEach(reg, types, enabledSet) ==
  IF types = <<>> THEN <<>>
  ELSE MissingDependencies(Head(types), reg[Head(types)].dependencies, enabledSet)
       \o ValidateEach(reg, Tail(types), enabledSet)

validateDependencies(reg, regConfig) ==
  ValidateEach(reg, getEnabledTypes(regConfig), SeqToSet(getEnabledTypes(regConfig)))

\* generateInBatches: threshold on the model count and size of one batch
BatchThreshold == 10
BatchSize == 5

\* how many times executeGeneration calls the generator of a type
GeneratorCalls(reg, type, models) ==
  IF reg[type].perModel /\ Len(models) > BatchThreshold
  THEN (Len(models) + BatchSize - 1) \div BatchSize
  ELSE 1

(***************************************************************************)
(* The DMMF handed to generate(): the read-only description                *)
(***************************************************************************)
\* the keys of a ModelMapping in the order printModelSchemas handles them,
\* each with the file type whose flag guards it
ModelOperationKeys ==
  << [op |-> "findUnique", type |-> "find"],
     [op |-> "findFirst",  type |-> "find"],
     [op |-> "findMany",   type |-> "find"],
     [op |-> "createOne",  type |-> "create"],
     [op |-> "deleteOne",  type |-> "delete"],
     [op |-> "deleteMany", type |-> "delete"],
     [op |-> "updateOne",  type |-> "update"],
     [op |-> "updateMany", type |-> "update"],
     [op |-> "upsertOne",  type |-> "upsert"],
     [op |-> "aggregate",  type |-> "aggregate"],
     [op |-> "groupBy",    type |-> "groupBy"] >>

OperationNames == {ModelOperationKeys[i].op : i \in 1..Len(ModelOperationKeys)}

\* the value of a mapping key: the operation name followed by the model name
OperationFileName(op, model) == op \o model

\* printModelSchemas: the name each operation module passes to addExportSchema
\* after the model name
SchemaExportNames ==
  [ findUnique |-> "FindUnique", findFirst  |-> "FindFirst",  findMany   |-> "FindMany",
    createOne  |-> "Create",     deleteOne  |-> "DeleteOne",  deleteMany |-> "DeleteMany",
    updateOne  |-> "UpdateOne",  updateMany |-> "UpdateMany", upsertOne  |-> "Upsert",
    aggregate  |-> "Aggregate",  groupBy    |-> "GroupBy" ]

\* addExportSchema: the symbol of `export const ${name}Schema = ...`
addExportSchema(name) == name \o "Schema"

\* the symbols the operation module of the given file name exports
ExportedSymbols(fileName, modelOperations) ==
  { addExportSchema(modelOperations[i].model \o SchemaExportNames[op]) :
      <<i, op>> \in { p \in (1..Len(modelOperations)) \X OperationNames :
                       /\ p[2] \in modelOperations[p[1]].ops
                       /\ OperationFileName(p[2], modelOperations[p[1]].model) = fileName } }

InputObjectNames(model) ==
  << model \o "WhereInput", model \o "OrderByWithRelationInput",
     model \o "UncheckedCreateInput", model \o "CreateInput" >>

SmallDmmf ==
  [ models           |-> <<"User">>,
    modelOperations  |-> << [model |-> "User",
                             ops |-> {"findMany", "createOne", "updateOne", "deleteOne"}] >>,
    enumTypes        |-> <<"Role">>,
    inputObjectTypes |-> InputObjectNames("User"),
    fieldRefTypes    |-> <<"IntFieldRefInput">> ]

TwoModelDmmf ==
  [ models           |-> <<"User", "Post">>,
    modelOperations  |-> << [model |-> "User", ops |-> OperationNames],
                            [model |-> "Post",
                             ops |-> {"findUnique", "createOne", "upsertOne", "groupBy"}] >>,
    enumTypes        |-> <<"Role", "SortOrder">>,
    inputObjectTypes |-> InputObjectNames("User") \o InputObjectNames("Post"),
    fieldRefTypes    |-> <<>> ]

DmmfChoices == {SmallDmmf, TwoModelDmmf}

\* descriptions around the batching threshold of executeGeneration
ManyModelNames ==
  << "User", "Post", "Comment", "Tag", "Profile", "Category",
     "Order", "Product", "Invoice", "Payment", "Review", "Address" >>

RECURSIVE MappingsOf(_)
MappingsOf(models) ==
  IF models = <<>> THEN <<>>
  ELSE <<[model |-> Head(models), ops |-> {"findMany", "createOne"}]>>
       \o MappingsOf(Tail(models))

ManyModelDmmf(n) ==
  [ models           |-> SubSeq(ManyModelNames, 1, n),
    modelOperations  |-> MappingsOf(SubSeq(ManyModelNames, 1, n)),
    enumTypes        |-> <<"Role">>,
    inputObjectTypes |-> InputObjectNames("User"),
    fieldRefTypes    |-> <<>> ]

ManyModelDmmfs == {ManyModelDmmf(n) : n \in {BatchThreshold, BatchThreshold + 1}}

(***************************************************************************)
(* transformer.ts: what one print call writes and tracks                   *)
(***************************************************************************)
\* the module reference pushed to a generated*Files list
SchemaRef(fileName) == "./" \o fileName \o ".schema"

FileInfo(type, fileName, category) ==
  [type |-> type, fileName |-> fileName, category |-> category]

\* printModelSchemas: the operation files of one mapping, in code order
RECURSIVE ModelSchemaFiles(_, _, _)
\* the operation files of one mapping with the enabledTypes test left out
ModelSchemaFiles_ignoreConfig(mapping, keys, enabledTypes) ==
  IF keys = <<>> THEN <<>>
  ELSE (IF Head(keys).op \in mapping.ops
        THEN <<FileInfo(Head(keys).type,
                        OperationFileName(Head(keys).op, mapping.model), "schema")>>
        ELSE <<>>)
       \o ModelSchemaFiles(mapping, Tail(keys), enabledTypes)

ModelSchemaFiles(mapping, keys, enabledTypes) ==
  IF keys = <<>> THEN <<>>
  ELSE (IF Head(keys).op \in mapping.ops /\ Head(keys).type \in enabledTypes
        THEN <<FileInfo(Head(keys).type,
                        OperationFileName(Head(keys).op, mapping.model), "schema")>>
        ELSE <<>>)
       \o ModelSchemaFiles(mapping, Tail(keys), enabledTypes)

RECURSIVE printModelSchemas(_, _)
printModelSchemas(modelOperations, enabledTypes) ==
  IF modelOperations = <<>> THEN <<>>
  ELSE ModelSchemaFiles(Head(modelOperations), ModelOperationKeys, enabledTypes)
       \o printModelSchemas(Tail(modelOperations), enabledTypes)

RECURSIVE printEnumSchemas(_)
printEnumSchemas(enumTypes) ==
  IF enumTypes = <<>> THEN <<>>
  ELSE <<FileInfo("enums", Head(enumTypes), "enum")>> \o printEnumSchemas(Tail(enumTypes))

\* printSchemaObjects for one type
printSchemaObjects(name) == <<FileInfo("objects", name, "object")>>

\* registry.ts shouldGenerateInputObject
shouldGenerateInputObject(objectName, enabledTypes) ==
  \/ "objects" \in enabledTypes
  \/ "filter" \in enabledTypes
  \/ "orderBy" \in enabledTypes
  \/ "unchecked" \in enabledTypes

RECURSIVE PrintObjects(_, _, _)
PrintObjects(names, filtered, enabledTypes) ==
  IF names = <<>> THEN <<>>
  ELSE (IF ~filtered \/ shouldGenerateInputObject(Head(names), enabledTypes)
        THEN printSchemaObjects(Head(names)) ELSE <<>>)
       \o PrintObjects(Tail(names), filtered, enabledTypes)

\* the 'objects' generator: field reference types, then input object types
ObjectsGenerator(dmmf, enabledTypes) ==
  IF "objects" \notin enabledTypes THEN <<>>
  ELSE PrintObjects(dmmf.fieldRefTypes, FALSE, enabledTypes)
       \o PrintObjects(dmmf.inputObjectTypes, TRUE, enabledTypes)

\* the files one call of the registered generator of a type writes, in order;
\* contextEnabled is context.config.enabledTypes, staticEnabled is
\* Transformer.config.enabledTypes
GeneratorFiles(entry, type, dmmf, contextEnabled, staticEnabled) ==
  IF entry.generator # "builtin" THEN <<>>
  ELSE CASE type = "enums"          -> printEnumSchemas(dmmf.enumTypes)
         [] type = "objects"        -> ObjectsGenerator(dmmf, contextEnabled)
         [] type \in OperationTypes -> printModelSchemas(dmmf.modelOperations, staticEnabled)
         [] OTHER                   -> <<>>

RECURSIVE Repeat(_, _)
Repeat(s, n) == IF n = 0 THEN <<>> ELSE s \o Repeat(s, n - 1)

RefsOf(files, category) ==
  LET InCategory(file) == file.category = category
      kept == SelectSeq(files, InCategory)
  IN [i \in 1..Len(kept) |-> SchemaRef(kept[i].fileName)]

\* one export line per distinct reference, repeated references left out
IndexExports_distinct(filesPaths) ==
  LET FirstOccurrence(i) == \A j \in 1..(i - 1) : filesPaths[j] # filesPaths[i]
      kept == SelectSeq([i \in 1..Len(filesPaths) |-> i], FirstOccurrence)
  IN [i \in 1..Len(kept) |-> "export * from '" \o filesPaths[kept[i]] \o "';"]

\* printIndex: one export line per tracked reference
IndexExports(filesPaths) ==
  [i \in 1..Len(filesPaths) |-> "export * from '" \o filesPaths[i] \o "';"]

(***************************************************************************)
(* transformer.ts: the text of one input object module                     *)
(* A field is [name, isRequired, isNullable, inputTypes]; an input type    *)
(* reference is [type, namespace, isList].                                 *)
(***************************************************************************)
RequiredMarker == ".required()"
NullableMarker == ".allow(null)"

\* the separator of alternatives.join and of the import lines
JoinSeparator == ",\r\n"

RECURSIVE Join(_, _)
Join(strings, separator) ==
  IF strings = <<>> THEN ""
  ELSE IF Len(strings) = 1 THEN strings[1]
  ELSE strings[1] \o separator \o Join(Tail(strings), separator)

\* Transformer.enumNames.includes(name)
Includes(names, name) == \E i \in 1..Len(names) : names[i] = name

\* this.schemaImports.add(name): a Set keeps one entry per name, in insertion order
addSchemaImport(schemaImports, name) ==
  IF Includes(schemaImports, name) THEN schemaImports ELSE Append(schemaImports, name)

\* getAllSchemaImports: one import statement per entry of this.schemaImports
getAllSchemaImports(schemaImports, enums) ==
  [ i \in 1..Len(schemaImports) |->
      IF Includes(enums, schemaImports[i])
      THEN "import { " \o schemaImports[i] \o "Schema } from '../enums/"
             \o schemaImports[i] \o ".schema'"
      ELSE "import { " \o schemaImports[i] \o "SchemaObject } from './"
             \o schemaImports[i] \o ".schema'" ]

\* the reference to an enum, an object or the type itself
PrismaReference(thisName, inputType, enums) ==
  IF inputType.isList
  THEN IF inputType.type = thisName
       THEN "Joi.array().items(Joi.link('#" \o inputType.type \o "'))"
       ELSE IF Includes(enums, inputType.type)
            THEN inputType.type \o "Schema"
            ELSE "Joi.array().items(Joi.object().keys(" \o inputType.type \o "SchemaObject))"
  ELSE IF inputType.type = thisName
       THEN "Joi.link('#" \o inputType.type \o "')"
       ELSE IF Includes(enums, inputType.type)
            THEN inputType.type \o "Schema"
            ELSE "Joi.object().keys(" \o inputType.type \o "SchemaObject)"

getPrismaStringLine(thisName, field, inputType, inputsLength, enums) ==
  IF inputsLength = 1
  THEN "  " \o field.name \o ": " \o PrismaReference(thisName, inputType, enums)
  ELSE IF inputsLength > 1
  THEN PrismaReference(thisName, inputType, enums)
  ELSE ""

\* isList ? 'Joi.array().items(X)' : 'X'
ListOf(inputType, validator) ==
  IF inputType.isList THEN "Joi.array().items(" \o validator \o ")" ELSE validator

\* getSchemaObjectLine, inputsLength === 1: the item of the one candidate, a
\* tuple [line, field] or [line, field, skipValidators], or the empty tuple
SingleCandidateLine(thisName, field, inputType, enums) ==
  IF inputType.type = "String"
  THEN << "  " \o field.name \o ": " \o ListOf(inputType, "Joi.string()"), field >>
  ELSE IF inputType.type = "Int" \/ inputType.type = "Float"
  THEN << "  " \o field.name \o ": " \o ListOf(inputType, "Joi.number()"), field >>
  ELSE IF inputType.type = "Boolean"
  THEN << "  " \o field.name \o ": " \o ListOf(inputType, "Joi.boolean()"), field >>
  ELSE IF inputType.type = "DateTime"
  THEN << "  " \o field.name \o ": " \o ListOf(inputType, "Joi.date()"), field >>
  ELSE IF inputType.namespace = "prisma"
  THEN << getPrismaStringLine(thisName, field, inputType, 1, enums), field, TRUE >>
  ELSE << >>

\* getSchemaObjectLine, inputsLength > 1: what the reducer pushes for one candidate
Alternative(thisName, field, inputType, inputsLength, enums) ==
  IF inputType.type = "String" THEN << ListOf(inputType, "Joi.string()") >>
  ELSE IF inputType.type = "Int" \/ inputType.type = "Float"
  THEN << ListOf(inputType, "Joi.number()") >>
  ELSE IF inputType.type = "Boolean" THEN << ListOf(inputType, "Joi.boolean()") >>
  ELSE IF inputType.namespace = "prisma"
  THEN << getPrismaStringLine(thisName, field, inputType, inputsLength, enums) >>
  ELSE IF inputType.type = "Json" THEN << ListOf(inputType, "Joi.any()") >>
  ELSE << >>

RECURSIVE Alternatives(_, _, _, _, _)
Alternatives(thisName, field, inputTypes, inputsLength, enums) ==
  IF inputTypes = <<>> THEN <<>>
  ELSE Alternative(thisName, field, Head(inputTypes), inputsLength, enums)
       \o Alternatives(thisName, field, Tail(inputTypes), inputsLength, enums)

\* the names getSchemaObjectLine passes to addSchemaImport, in order
RECURSIVE ImportedBy(_, _, _)
ImportedBy(thisName, inputTypes, inputsLength) ==
  IF inputTypes = <<>> THEN <<>>
  ELSE LET inputType == Head(inputTypes)
           scalar == \/ inputType.type \in {"String", "Int", "Float", "Boolean"}
                     \/ inputsLength = 1 /\ inputType.type = "DateTime"
       IN (IF ~scalar /\ inputType.namespace = "prisma" /\ inputType.type # thisName
           THEN <<inputType.type>> ELSE <<>>)
          \o ImportedBy(thisName, Tail(inputTypes), inputsLength)

RECURSIVE AddAll(_, _)
AddAll(schemaImports, names) ==
  IF names = <<>> THEN schemaImports
  ELSE AddAll(addSchemaImport(schemaImports, Head(names)), Tail(names))

\* getSchemaObjectLine: the items of one field
getSchemaObjectLine(thisName, field, enums) ==
  LET inputsLength == Len(field.inputTypes) IN
  IF inputsLength = 0 THEN <<>>
  ELSE IF inputsLength = 1
  THEN << SingleCandidateLine(thisName, field, field.inputTypes[1], enums) >>
  ELSE LET alternatives == Alternatives(thisName, field, field.inputTypes,
                                        inputsLength, enums)
       IN IF Len(alternatives) > 0
          THEN << << "  " \o field.name \o ": Joi.alternatives().try("
                       \o Join(alternatives, JoinSeparator) \o ")", field, TRUE >> >>
          ELSE << << >> >>

\* getFieldValidators appending no marker
getFieldValidators_noMarkers(joiStringWithMainType, field) == joiStringWithMainType

getFieldValidators(joiStringWithMainType, field) ==
  joiStringWithMainType
    \o (IF field.isRequired THEN RequiredMarker ELSE "")
    \o (IF field.isNullable THEN NullableMarker ELSE "")

\* the value kept for one item when skipValidators is not looked at
ItemValue_alwaysValidators(item) ==
  IF Len(item) = 0 THEN <<>>
  ELSE <<getFieldValidators(item[1], item[2])>>

\* printSchemaObjects: the value kept for one item of getSchemaObjectLine
ItemValue(item) ==
  IF Len(item) = 0 THEN <<>>
  ELSE IF Len(item) >= 3 /\ item[3] THEN <<item[1]>>
  ELSE <<getFieldValidators(item[1], item[2])>>

RECURSIVE ItemValues(_)
ItemValues(items) ==
  IF items = <<>> THEN <<>> ELSE ItemValue(Head(items)) \o ItemValues(Tail(items))

\* printSchemaObjects: joiStringFields of the type named thisName
RECURSIVE JoiStringFields(_, _, _)
JoiStringFields(thisName, fields, enums) ==
  IF fields = <<>> THEN <<>>
  ELSE ItemValues(getSchemaObjectLine(thisName, Head(fields), enums))
       \o JoiStringFields(thisName, Tail(fields), enums)

\* this.schemaImports once the fields of the type have been mapped
RECURSIVE ImportsAfter(_, _, _)
ImportsAfter(schemaImports, thisName, fields) ==
  IF fields = <<>> THEN schemaImports
  ELSE ImportsAfter(AddAll(schemaImports,
                           ImportedBy(thisName, Head(fields).inputTypes,
                                      Len(Head(fields).inputTypes))),
                    thisName, Tail(fields))

(***************************************************************************)
(* pathResolver.ts: PathResolver                                           *)
(* A path is the sequence of its segments; a directory name of the         *)
(* configuration is a sequence of characters.                              *)
(***************************************************************************)
\* the string made of the characters of a directory name
RECURSIVE Str(_)
Str(chars) == IF chars = <<>> THEN "" ELSE Head(chars) \o Str(Tail(chars))

\* this.config.directories[key]; undefined when the key is absent
DirectoryName(config, key) ==
  IF key \in DOMAIN config.directories
  THEN Str(config.directories[key]) ELSE Undefined

\* path.join throws a TypeError on an argument that is not a string
JoinThrows(path) == \E i \in 1..Len(path) : path[i] = Undefined

UpperLetters == "ABCDEFGHIJKLMNOPQRSTUVWXYZ"
LowerLetters == "abcdefghijklmnopqrstuvwxyz"
Digits == "0123456789"

\* position of a character in a string, 0 when absent
IndexIn(s, c) ==
  IF \E i \in 1..Len(s) : SubSeq(s, i, i) = c
  THEN CHOOSE i \in 1..Len(s) : SubSeq(s, i, i) = c /\ \A j \in 1..(i - 1) : SubSeq(s, j, j) # c
  ELSE 0

\* toLowerCase() then replace(/[^a-z0-9]/g, '-') on one character
SanitizeChar(c) ==
  IF IndexIn(UpperLetters, c) > 0
  THEN SubSeq(LowerLetters, IndexIn(UpperLetters, c), IndexIn(UpperLetters, c))
  ELSE IF IndexIn(LowerLetters, c) > 0 \/ IndexIn(Digits, c) > 0 THEN c
  ELSE "-"

\* replace(/-+/g, '-') and replace(/^-|-$/g, '') while the characters are appended
RECURSIVE SanitizeFrom(_, _, _)
SanitizeFrom(name, i, out) ==
  IF i > Len(name)
  THEN IF Len(out) > 0 /\ SubSeq(out, Len(out), Len(out)) = "-"
       THEN SubSeq(out, 1, Len(out) - 1) ELSE out
  ELSE LET c == SanitizeChar(SubSeq(name, i, i))
       IN IF c = "-" /\ (out = "" \/ SubSeq(out, Len(out), Len(out)) = "-")
          THEN SanitizeFrom(name, i + 1, out)
          ELSE SanitizeFrom(name, i + 1, out \o c)

sanitizeDirectoryName(name) == SanitizeFrom(name, 1, "")

\* String.prototype.replace(target, value): the first occurrence only
ReplaceFirst(s, target, value) ==
  LET hits == {i \in 1..(Len(s) - Len(target) + 1) :
                 SubSeq(s, i, i + Len(target) - 1) = target}
  IN IF hits = {} THEN s
     ELSE LET i == CHOOSE h \in hits : \A g \in hits : h <= g
          IN SubSeq(s, 1, i - 1) \o value \o SubSeq(s, i + Len(target), Len(s))

getFilename(config, fileInfo) ==
  LET pattern == CASE fileInfo.category = "schema" -> config.naming.schemaFiles
                   [] fileInfo.category = "object" -> config.naming.objectFiles
                   [] fileInfo.category = "enum"   -> config.naming.enumFiles
                   [] OTHER                        -> config.naming.schemaFiles
  IN ReplaceFirst(ReplaceFirst(ReplaceFirst(pattern, "{operation}", fileInfo.fileName),
                               "{name}", fileInfo.fileName),
                  "{type}", fileInfo.type) \o ".ts"

ResolvedPath(directory, filename, importPath) ==
  [ filePath   |-> Append(directory, filename),
    directory  |-> directory,
    filename   |-> filename,
    importPath |-> importPath ]

resolveFlatPath(config, fileInfo) ==
  ResolvedPath(<<DirectoryName(config, "base")>>, getFilename(config, fileInfo),
               "./" \o fileInfo.fileName \o ".schema")

resolveGroupedPath(config, fileInfo) ==
  LET baseDir == DirectoryName(config, "base") IN
  CASE fileInfo.category = "enum" ->
         ResolvedPath(<<baseDir, DirectoryName(config, "enums")>>,
                      getFilename(config, fileInfo),
                      "../enums/" \o fileInfo.fileName \o ".schema")
    [] fileInfo.category = "object" ->
         ResolvedPath(<<baseDir, DirectoryName(config, "objects")>>,
                      getFilename(config, fileInfo),
                      "./" \o fileInfo.fileName \o ".schema")
    [] OTHER ->
         ResolvedPath(<<baseDir>>, getFilename(config, fileInfo),
                      "./" \o fileInfo.fileName \o ".schema")

resolveByModelPath(config, fileInfo) ==
  LET baseDir  == DirectoryName(config, "base")
      modelDir == sanitizeDirectoryName(fileInfo.modelName)
  IN
  IF fileInfo.modelName = Undefined \/ fileInfo.modelName = ""
  THEN resolveGroupedPath(config, fileInfo)
  ELSE CASE fileInfo.category = "object" ->
              ResolvedPath(<<baseDir, DirectoryName(config, "models"), modelDir,
                             DirectoryName(config, "objects")>>,
                           getFilename(config, fileInfo),
                           "./objects/" \o fileInfo.fileName \o ".schema")
         [] fileInfo.category = "enum" ->
              ResolvedPath(<<baseDir, DirectoryName(config, "enums")>>,
                           getFilename(config, fileInfo),
                           "../../enums/" \o fileInfo.fileName \o ".schema")
         [] OTHER ->
              ResolvedPath(<<baseDir, DirectoryName(config, "models"), modelDir>>,
                           getFilename(config, fileInfo),
                           "./" \o fileInfo.fileName \o ".schema")

resolvePath(config, fileInfo) ==
  CASE config.directoryStrategy = "flat"     -> resolveFlatPath(config, fileInfo)
    [] config.directoryStrategy = "grouped"  -> resolveGroupedPath(config, fileInfo)
    [] config.directoryStrategy = "by-model" -> resolveByModelPath(config, fileInfo)
    [] OTHER                                 -> resolveGroupedPath(config, fileInfo)

\* the alternatives of the three patterns of extractModelName, in their order
OperationPrefixes ==
  << "findUnique", "findFirst", "findMany", "createOne", "updateOne", "deleteOne",
     "upsertOne", "deleteMany", "updateMany", "aggregate", "groupBy" >>

InputTypeSuffixes ==
  << "CreateInput", "UpdateInput", "WhereInput", "OrderByInput", "UncheckedCreateInput",
     "UncheckedUpdateInput", "AvgOrderByAggregateInput", "CountOrderByAggregateInput",
     "MaxOrderByAggregateInput", "MinOrderByAggregateInput", "SumOrderByAggregateInput",
     "ScalarWhereWithAggregatesInput", "CreateManyInput", "UpdateManyMutationInput",
     "UncheckedUpdateManyInput", "OrderByWithAggregationInput",
     "OrderByWithRelationInput", "WhereUniqueInput", "ListRelationFilter",
     "ScalarRelationFilter", "NullableScalarRelationFilter",
     "CreateNestedManyWithoutInput", "CreateNestedOneWithoutInput",
     "UpdateNestedManyWithoutInput", "UpdateNestedOneWithoutInput",
     "UncheckedCreateNestedManyWithoutInput", "UncheckedUpdateNestedManyWithoutInput",
     "CreateOrConnectWithoutInput", "UpdateWithWhereUniqueWithoutInput",
     "UpdateWithoutInput", "UpsertWithWhereUniqueWithoutInput", "UpsertWithoutInput",
     "CreateWithoutInput", "UncheckedCreateWithoutInput", "UncheckedUpdateWithoutInput",
     "UpdateManyWithWhereWithoutInput", "UpdateManyWithoutNestedInput",
     "CreateManyInputEnvelope", "ScalarWhereInput" >>

\* one of the words stands at position i of the name
WordAt(name, i, words) ==
  \E w \in 1..Len(words) :
    /\ i + Len(words[w]) - 1 <= Len(name)
    /\ SubSeq(name, i, i + Len(words[w]) - 1) = words[w]

\* /^(prefix1|...)(.+)$/ : the text after the prefix
MatchOperation(operationName) ==
  LET hits == {w \in 1..Len(OperationPrefixes) :
                 /\ WordAt(operationName, 1, <<OperationPrefixes[w]>>)
                 /\ Len(operationName) > Len(OperationPrefixes[w])}
  IN IF hits = {} THEN Undefined
     ELSE LET w == CHOOSE h \in hits : \A g \in hits : h <= g
          IN SubSeq(operationName, Len(OperationPrefixes[w]) + 1, Len(operationName))

\* /^(.+?)(suffix1|...).*$/ : the shortest non-empty lead followed by a suffix
MatchInputType(operationName) ==
  LET hits == {k \in 1..Len(operationName) : WordAt(operationName, k + 1, InputTypeSuffixes)}
  IN IF hits = {} THEN Undefined
     ELSE SubSeq(operationName, 1, CHOOSE h \in hits : \A g \in hits : h <= g)

\* /^(.+)(Schema)$/ : the text before the final Schema
MatchSchema(operationName) ==
  IF /\ Len(operationName) > 6
     /\ SubSeq(operationName, Len(operationName) - 5, Len(operationName)) = "Schema"
  THEN SubSeq(operationName, 1, Len(operationName) - 6)
  ELSE Undefined

\* extractModelName trying the patterns in the other order
extractModelName_suffixFirst(operationName) ==
  IF MatchInputType(operationName) # Undefined THEN MatchInputType(operationName)
  ELSE IF MatchOperation(operationName) # Undefined THEN MatchOperation(operationName)
  ELSE IF MatchSchema(operationName) # Undefined THEN MatchSchema(operationName)
  ELSE Undefined

extractModelName(operationName) ==
  IF MatchOperation(operationName) # Undefined THEN MatchOperation(operationName)
  ELSE IF MatchInputType(operationName) # Undefined THEN MatchInputType(operationName)
  ELSE IF MatchSchema(operationName) # Undefined THEN MatchSchema(operationName)
  ELSE Undefined

hasObjectTypes(config) ==
  \E type \in {"objects", "filter", "orderBy", "unchecked"} : type \in config.enabledTypes

\* directories.add(path) on a Set, kept in insertion order
AddDirectory(directories, path) ==
  IF \E i \in 1..Len(directories) : directories[i] = path
  THEN directories ELSE Append(directories, path)

RECURSIVE ModelDirectories(_, _, _)
ModelDirectories(config, modelNames, directories) ==
  IF modelNames = <<>> THEN directories
  ELSE LET modelPath == << DirectoryName(config, "base"), DirectoryName(config, "models"),
                           sanitizeDirectoryName(Head(modelNames)) >>
           withModel == AddDirectory(directories, modelPath)
       IN ModelDirectories(config, Tail(modelNames),
            IF hasObjectTypes(config)
            THEN AddDirectory(withModel, Append(modelPath, DirectoryName(config, "objects")))
            ELSE withModel)

getRequiredDirectories(config, modelNames) ==
  LET baseDir   == DirectoryName(config, "base")
      enumsDir  == <<baseDir, DirectoryName(config, "enums")>>
      withBase  == << <<baseDir>> >>
      withEnums == IF "enums" \in config.enabledTypes
                   THEN AddDirectory(withBase, enumsDir) ELSE withBase
  IN CASE config.directoryStrategy = "flat" -> withBase
       [] config.directoryStrategy = "grouped" ->
            IF hasObjectTypes(config)
            THEN AddDirectory(withEnums, <<baseDir, DirectoryName(config, "objects")>>)
            ELSE withEnums
       [] config.directoryStrategy = "by-model" ->
            ModelDirectories(config, modelNames, withEnums)
       [] OTHER -> withBase

\* the FileInfo handed to resolveFilePath: an operation module carries the
\* model of its mapping, an object module extractModelName(this.name), an
\* enum module no modelName
ResolvedFileInfo(fileInfo, modelOperations) ==
  [ type      |-> fileInfo.type,
    fileName  |-> fileInfo.fileName,
    category  |-> fileInfo.category,
    modelName |->
      CASE fileInfo.category = "object" -> extractModelName(fileInfo.fileName)
        [] fileInfo.category = "schema" ->
             LET owners == {i \in 1..Len(modelOperations) :
                              \E op \in modelOperations[i].ops :
                                fileInfo.fileName =
                                  OperationFileName(op, modelOperations[i].model)}
             IN IF owners = {} THEN Undefined
                ELSE modelOperations[CHOOSE i \in owners : TRUE].model
        [] OTHER -> Undefined ]

\* resolveFilePath for each file a generator writes, in order
ResolveAll(config, files, modelOperations) ==
  [ i \in 1..Len(files) |->
      LET info == ResolvedFileInfo(files[i], modelOperations)
      IN [fileInfo |-> info, resolved |-> resolvePath(config, info)] ]

(***************************************************************************)
(* Inputs: the raw generator configurations the model supplies             *)
(***************************************************************************)
NoFlags == [t \in JoiFileType |-> Undefined]

NoDirectories == [k \in SeqToSet(DirectoryKeys) |-> <<>>]

DefaultRaw ==
  [ filterStrategy |-> Undefined, directoryStrategy |-> Undefined,
    includeTypes |-> <<>>, excludeTypes |-> <<>>,
    enabledTypes |-> <<>>, disabledTypes |-> <<>>,
    flags |-> NoFlags, directories |-> NoDirectories,
    generateTypes |-> Undefined, generateIndex |-> Undefined ]

AllFlags(v) == [t \in JoiFileType |-> v]

\* flags supplied for a few kinds only
FlagKinds == {"create", "update", "objects", "enums"}

PartialFlags ==
  {[t \in JoiFileType |-> IF t \in FlagKinds THEN f[t] ELSE Undefined] :
     f \in [FlagKinds -> {Undefined, "true", "false"}]}

FlagChoices ==
  PartialFlags
  \cup {AllFlags("false"), AllFlags("true"),
        [AllFlags("true") EXCEPT !["filter"] = "false"],
        [AllFlags("true") EXCEPT !["orderBy"] = "No"],
        [NoFlags EXCEPT !["create"] = "TRUE"],
        [NoFlags EXCEPT !["find"] = " yes "],
        [NoFlags EXCEPT !["create"] = "maybe"],
        [NoFlags EXCEPT !["enums"] = ""]}

StrategyChoices == {Undefined, "selective", "whitelist", "blacklist", "bogus"}

IncludeChoices ==
  {<<>>, <<"">>, <<" ", "">>, <<"objects", "enums">>,
   <<" create", "find ", "objects", "enums">>, <<"create", "bogus">>}

ExcludeChoices ==
  {<<>>, <<"aggregate", "groupBy">>, supportedTypes, <<"nothing">>}

\* strategy, lists and per-kind flags
CoreRawConfigs ==
  {[DefaultRaw EXCEPT !.filterStrategy = fs, !.includeTypes = inc,
                      !.excludeTypes = exc, !.flags = fl] :
     fs \in StrategyChoices, inc \in IncludeChoices,
     exc \in ExcludeChoices, fl \in FlagChoices}

DirNameOut == <<"o","u","t">>
DirNameBad == <<"m","y"," ","d","i","r">>
DirNameObj == <<"o","b","j","_","1","-","A">>

\* legacy aliases, directories, index flag and directory strategy
AuxRawConfigs ==
  {[DefaultRaw EXCEPT !.filterStrategy = fs, !.includeTypes = inc,
                      !.enabledTypes = en, !.disabledTypes = dis,
                      !.directories = [NoDirectories EXCEPT !["base"] = bd, !["objects"] = od],
                      !.generateIndex = gi, !.directoryStrategy = ds] :
     fs \in {Undefined, "whitelist", "blacklist"},
     inc \in {<<>>, <<"objects", "enums">>},
     en \in {<<>>, <<"find", "objects", "enums">>},
     dis \in {<<>>, <<"groupBy">>},
     bd \in {<<>>, DirNameOut, DirNameBad},
     od \in {<<>>, DirNameObj},
     gi \in {Undefined, "false", "No", "x"},
     ds \in {Undefined, "flat", "by-model", "tree"}}

RawConfigs == CoreRawConfigs \cup AuxRawConfigs

\* the configurations generate() is run with
GenerateConfigs ==
  { DefaultRaw,
    [DefaultRaw EXCEPT !.flags = [NoFlags EXCEPT !["update"] = "false"]],
    [DefaultRaw EXCEPT !.flags = [NoFlags EXCEPT !["create"] = "true", !["find"] = "true",
                                                 !["update"] = "false", !["delete"] = "false",
                                                 !["objects"] = "true", !["enums"] = "true"]],
    [DefaultRaw EXCEPT !.flags = [AllFlags("true") EXCEPT !["filter"] = "false"]],
    [DefaultRaw EXCEPT !.flags = [NoFlags EXCEPT !["create"] = "maybe"]],
    [DefaultRaw EXCEPT !.filterStrategy = "whitelist",
                       !.includeTypes = <<"find", "objects", "enums">>],
    [DefaultRaw EXCEPT !.filterStrategy = "whitelist", !.includeTypes = <<"create">>],
    [DefaultRaw EXCEPT !.filterStrategy = "whitelist"],
    [DefaultRaw EXCEPT !.filterStrategy = "blacklist",
                       !.excludeTypes = <<"aggregate", "groupBy">>],
    [DefaultRaw EXCEPT !.filterStrategy = "blacklist", !.excludeTypes = supportedTypes],
    [DefaultRaw EXCEPT !.filterStrategy = "bogus"],
    [DefaultRaw EXCEPT !.includeTypes = <<"create", "bogus">>],
    [DefaultRaw EXCEPT !.directories = [NoDirectories EXCEPT !["base"] = DirNameBad]],
    [DefaultRaw EXCEPT !.generateIndex = "false"] }

NotParsed == ConfigError("not parsed", "")

NoOptions == [config |-> DefaultRaw, clientGenerator |-> TRUE, dmmf |-> SmallDmmf]

\* a ValidatedJoiGeneratorConfig whose enabled set is the given one
ValidatedWith(enabledTypes) ==
  [parseGeneratorConfig(DefaultRaw) EXCEPT !.enabledTypes = enabledTypes]

\* enabled sets handed to executeGeneration directly
EnabledChoices ==
  {S \cup T : S \in SUBSET {"enums", "objects", "find", "update"},
              T \in {{}, {"filter"},
                     JoiFileType \ {"enums", "objects", "find", "update"}}} \ {{}}

\* metadata of an entry registered over a built-in one
PriorityChoices == {0, 3, 20}

DependencyChoices ==
  {<<>>}
  \cup {<<a>> : a \in {"enums", "objects", "find", "filter"}}
  \cup {d \in {<<a, b>> : a, b \in {"enums", "objects", "find", "filter"}} : d[1] # d[2]}

CustomTypes == {"enums", "objects", "find", "update"}

(***************************************************************************)
(* Inputs: the input object types of a description                         *)
(***************************************************************************)
SeqsUpTo(S, n) == UNION {[1..k -> S] : k \in 0..n}

\* Transformer.enumNames of the description: Role is referenced through the
\* prisma namespace, Status through the model namespace
ObjectEnumNames == <<"Role", "Status">>

ScalarTypeNames == {"String", "Int", "Float", "Boolean", "DateTime", "Json", "BigInt"}

ObjectTypeNames == {"UserWhereInput", "PostWhereInput", "UserCreateInput"}

InputTypeRef(type, namespace, isList) ==
  [type |-> type, namespace |-> namespace, isList |-> isList]

InputTypeRefs ==
  {InputTypeRef(t, Undefined, l) : t \in ScalarTypeNames, l \in BOOLEAN}
    \cup {InputTypeRef(t, "prisma", l) :
            t \in {"Role", "UserWhereInput", "PostWhereInput"}, l \in BOOLEAN}
    \cup {InputTypeRef("Status", "model", l) : l \in BOOLEAN}

\* the fields of the type UserWhereInput, one at a time
FieldChoices ==
  { [name |-> "value", isRequired |-> r, isNullable |-> n, inputTypes |-> c] :
      r \in BOOLEAN, n \in BOOLEAN, c \in SeqsUpTo(InputTypeRefs, MaxCandidates) }

\* references between input object types, to an enum and to a scalar
RelationRefs ==
  {InputTypeRef(t, "prisma", FALSE) : t \in ObjectTypeNames \cup {"Role"}}

RelationFields ==
  { [name |-> "value", isRequired |-> FALSE, isNullable |-> FALSE, inputTypes |-> c] :
      c \in [1..1 -> RelationRefs] \cup [1..2 -> RelationRefs] }

RelationTypes ==
  {[name |-> n, fields |-> <<f>>] : n \in ObjectTypeNames, f \in RelationFields}

\* the inputObjectTypes lists: up to MaxObjects types, each name once
ObjectTypeLists ==
  { l \in SeqsUpTo(RelationTypes, MaxObjects) :
      \A i, j \in 1..Len(l) : i # j => l[i].name # l[j].name }

(***************************************************************************)
(* Inputs: configurations that choose a directory layout                   *)
(***************************************************************************)
\* the four directory names, all supplied
CustomDirectories ==
  [ base    |-> DirNameOut,
    objects |-> DirNameObj,
    enums   |-> <<"e","n","u","m","s">>,
    models  |-> <<"e","n","t","i","t","y">> ]

PathRawConfigs ==
  { [DefaultRaw EXCEPT !.directoryStrategy = strategy, !.directories = dirs,
                       !.filterStrategy = filter[1], !.includeTypes = filter[2],
                       !.excludeTypes = filter[3], !.generateIndex = index] :
      strategy \in {Undefined, "flat", "grouped", "by-model"},
      dirs \in {NoDirectories, CustomDirectories,
                [NoDirectories EXCEPT !["objects"] = DirNameObj]},
      filter \in { <<Undefined, <<>>, <<>>>>,
                   <<"whitelist", <<"enums", "objects", "find">>, <<>>>>,
                   <<"whitelist", <<"enums">>, <<>>>>,
                   <<"blacklist", <<>>, <<"groupBy", "aggregate">>>> },
      index \in {Undefined, "false"} }

\* names handed to extractModelName: operation names, input type names,
\* names ending in Schema, names of both shapes and names of none
ModelNameChoices == {"User", "Post"}

NameChoices ==
  {OperationPrefixes[i] \o m : i \in 1..Len(OperationPrefixes), m \in ModelNameChoices}
    \cup {m \o InputTypeSuffixes[i] : i \in 1..Len(InputTypeSuffixes), m \in ModelNameChoices}
    \cup {m \o "Schema" : m \in ModelNameChoices}
    \cup {"findManyUserCreateInput", "UserCreateInputSchema", "groupByPostSchema",
          "UserWhereInputExtra", "PostCreateNestedManyWithoutAuthorInput"}
    \cup {"IntFilter", "IntFieldRefInput", "Role", "Schema", "findMany", "WhereInput"}

(***************************************************************************)
(* State                                                                   *)
(***************************************************************************)
VARIABLES
  options,                     \* GeneratorOptions of the current invocation
  config,                      \* result of parseGeneratorConfig
  pc,                          \* position of generate() / executeGeneration
  error,                       \* message of the error raised, "" if none
  runs,                        \* generate() invocations so far
  registry,                    \* FileTypeRegistry.registry
  registryConfig,              \* FileTypeRegistry.config
  customized,                  \* register() was called over a built-in entry
  generationOrder,             \* the order executeGeneration iterates
  nextIndex,                   \* position in generationOrder
  running,                     \* the type whose generator is awaited
  started,                     \* generator entries, in order
  completed,                   \* generator completions, in order
  enumNames,                   \* Transformer.enumNames
  generatedSchemaFiles,        \* Transformer.generatedSchemaFiles
  generatedSchemaObjectFiles,  \* Transformer.generatedSchemaObjectFiles
  generatedSchemaEnumFiles,    \* Transformer.generatedSchemaEnumFiles
  transformerConfig,           \* Transformer.config
  disk,                        \* module files in the output directory
  indexFiles,                  \* index files in the output directory
  written,                     \* modules written by the current invocation
  produced,                    \* references tracked by the current invocation
  cleared,                     \* the current invocation cleared the output directory
  dirsCreated,                 \* the current invocation created a directory
  transformerName,             \* name of the shared Transformer instance
  schemaImports,               \* schemaImports of the shared Transformer instance
  pendingObjectTypes,          \* types the objects generator has yet to print
  objectModules,               \* object modules printed by the current invocation
  requiredDirectories,         \* what getRequiredDirectories returned
  filePaths,                   \* the resolved path of each module written, in order
  previous                     \* what the invocation before this one was given and left

vars ==
  << options, config, pc, error, runs, registry, registryConfig, customized,
     generationOrder, nextIndex, running, started, completed, enumNames,
     generatedSchemaFiles, generatedSchemaObjectFiles, generatedSchemaEnumFiles,
     transformerConfig, disk, indexFiles, written, produced, cleared, dirsCreated,
     transformerName, schemaImports, pendingObjectTypes, objectModules,
     requiredDirectories, filePaths, previous >>

registryVars == << registry, registryConfig, customized, generationOrder, nextIndex,
                   running, started, completed >>

staticVars == << enumNames, generatedSchemaFiles, generatedSchemaObjectFiles,
                 generatedSchemaEnumFiles >>

outputVars == << disk, indexFiles, written, produced >>

instanceVars == << transformerName, schemaImports >>

objectVars == << transformerName, schemaImports, pendingObjectTypes, objectModules >>

pathVars == << requiredDirectories, filePaths >>

NoProduced == [schema |-> <<>>, object |-> <<>>, enum |-> <<>>]

NoIndexFiles == [t \in {} |-> <<>>]

\* what a previous build left in the output directory
StaleDisk == {FileInfo("find", "findManyLegacy", "schema")}

UnsetConfig == [set |-> FALSE, enabledTypes |-> {}]

\* the error generate() raises when no client generator is configured
PreconditionError == "requires prisma-client-js or prisma-client"

\* the TypeError of path.join on an argument that is not a string
PathTypeError == "The path argument must be of type string"

(***************************************************************************)
(* prisma-generator.ts: generate()                                         *)
(***************************************************************************)
\* the host calls generate() once more in the same process
Invoke(opts) ==
  /\ pc \in {"idle", "done", "failed"}
  /\ runs < MaxRuns
  /\ options' = opts
  /\ runs' = runs + 1
  /\ pc' = "start"
  /\ error' = ""
  /\ config' = NotParsed
  /\ generationOrder' = <<>>
  /\ nextIndex' = 1
  /\ running' = "none"
  /\ started' = <<>>
  /\ completed' = <<>>
  /\ written' = <<>>
  /\ produced' = NoProduced
  /\ cleared' = FALSE
  /\ dirsCreated' = FALSE
  /\ objectModules' = <<>>
  /\ requiredDirectories' = <<>>
  /\ filePaths' = <<>>
  /\ previous' = [pc |-> pc, options |-> options, disk |-> disk, indexFiles |-> indexFiles]
  /\ UNCHANGED << instanceVars, pendingObjectTypes, registry, registryConfig, customized, staticVars,
                  transformerConfig, disk, indexFiles >>

\* generate() preparing the output directory before it parses the configuration
ParseConfig_outputFirst ==
  /\ pc = "start"
  /\ config' = parseGeneratorConfig(options.config)
  /\ pc' = IF config'.ok THEN "parsed" ELSE "failed"
  /\ error' = config'.error
  /\ dirsCreated' = TRUE
  /\ cleared' = TRUE
  /\ disk' = {}
  /\ indexFiles' = NoIndexFiles
  /\ UNCHANGED << previous, objectVars, pathVars, options, runs, registryVars, staticVars, transformerConfig,
                  written, produced >>

\* const config = parseGeneratorConfig(options)
ParseConfig ==
  /\ pc = "start"
  /\ config' = parseGeneratorConfig(options.config)
  /\ pc' = IF config'.ok THEN "parsed" ELSE "failed"
  /\ error' = config'.error
  /\ UNCHANGED << previous, objectVars, pathVars, options, runs, registryVars, staticVars, transformerConfig,
                  outputVars, cleared, dirsCreated >>

\* handleGeneratorOutputValue: mkdir, remove the contents, setOutputPath, setConfig
HandleGeneratorOutputValue ==
  /\ pc = "parsed"
  /\ dirsCreated' = TRUE
  /\ cleared' = TRUE
  /\ disk' = {}
  /\ indexFiles' = NoIndexFiles
  /\ transformerConfig' = [set |-> TRUE, enabledTypes |-> config.enabledTypes]
  /\ pc' = "output"
  /\ UNCHANGED << previous, objectVars, pathVars, options, config, error, runs, registryVars, staticVars,
                  written, produced >>

\* the prisma-client-js / prisma-client lookup, then getDMMF
CheckClientGenerator ==
  /\ pc = "output"
  /\ IF options.clientGenerator
     THEN pc' = "dmmf" /\ error' = error
     ELSE pc' = "failed" /\ error' = PreconditionError
  /\ UNCHANGED << previous, objectVars, pathVars, options, config, runs, registryVars, staticVars, transformerConfig,
                  outputVars, cleared, dirsCreated >>

\* createRequiredDirectories, Transformer.enumNames, the generation context
\* with its new Transformer({})
PrepareGeneration ==
  /\ pc = "dmmf"
  /\ LET directories == getRequiredDirectories(config, options.dmmf.models)
     IN IF \E i \in 1..Len(directories) : JoinThrows(directories[i])
        THEN \* path.join(undefined, ...) in createRequiredDirectories
             /\ pc' = "failed"
             /\ error' = PathTypeError
             /\ UNCHANGED << requiredDirectories, enumNames, instanceVars >>
        ELSE /\ requiredDirectories' = directories
             /\ enumNames' = options.dmmf.enumTypes
             /\ transformerName' = ""
             /\ schemaImports' = <<>>
             /\ pc' = "exec"
             /\ error' = error
  /\ dirsCreated' = TRUE
  /\ UNCHANGED << previous, pendingObjectTypes, objectModules, filePaths, options, config, runs,
                  registryVars, generatedSchemaFiles, generatedSchemaObjectFiles,
                  generatedSchemaEnumFiles, transformerConfig, outputVars, cleared >>

(***************************************************************************)
(* registry.ts: register, executeGeneration                                *)
(***************************************************************************)
\* register(entry) over a built-in type, with a generator that writes nothing
Register(type, priority, dependencies) ==
  /\ pc = "exec"
  /\ ~customized
  /\ registry' = [registry EXCEPT ![type] =
                    [ priority |-> priority, dependencies |-> dependencies,
                      perModel |-> FALSE, generator |-> "custom" ]]
  /\ customized' = TRUE
  /\ UNCHANGED << previous, objectVars, pathVars, options, config, pc, error, runs, registryConfig, generationOrder,
                  nextIndex, running, started, completed, staticVars,
                  transformerConfig, outputVars, cleared, dirsCreated >>

\* setConfig, validateDependencies, getGenerationOrder
ExecuteGenerationBegin ==
  /\ pc = "exec"
  /\ registryConfig' = [set |-> TRUE, enabledTypes |-> config.enabledTypes]
  /\ LET dependencyErrors == validateDependencies(registry, registryConfig')
         order            == getGenerationOrder(registry, registryConfig')
     IN IF Len(dependencyErrors) > 0
        THEN /\ pc' = "failed"
             /\ error' = "Dependency validation failed"
             /\ UNCHANGED << generationOrder, nextIndex >>
        ELSE IF order.thrown
        THEN /\ pc' = "failed"
             /\ error' = "Circular dependency detected"
             /\ UNCHANGED << generationOrder, nextIndex >>
        ELSE /\ pc' = "generating"
             /\ error' = error
             /\ generationOrder' = order.sorted
             /\ nextIndex' = 1
  /\ UNCHANGED << previous, objectVars, pathVars, options, config, runs, registry, customized, running, started,
                  completed, staticVars, transformerConfig, outputVars,
                  cleared, dirsCreated >>

\* the loop reaches the next type and enters its generator
GeneratorStart ==
  /\ pc = "generating"
  /\ running = "none"
  /\ nextIndex <= Len(generationOrder)
  /\ running' = generationOrder[nextIndex]
  /\ started' = Append(started, generationOrder[nextIndex])
  /\ UNCHANGED << previous, objectVars, pathVars, options, config, pc, error, runs, registry, registryConfig,
                  customized, generationOrder, nextIndex, completed, staticVars,
                  transformerConfig, outputVars, cleared, dirsCreated >>

\* the awaited generator (all its batches) returns: its files are written
\* and their references pushed
GeneratorFinish ==
  /\ pc = "generating"
  /\ running # "none"
  /\ LET files == Repeat(GeneratorFiles(registry[running], running, options.dmmf,
                                        config.enabledTypes,
                                        transformerConfig.enabledTypes),
                         GeneratorCalls(registry, running, options.dmmf.models))
     IN /\ disk' = disk \cup SeqToSet(files)
        /\ written' = written \o files
        /\ filePaths' = filePaths \o ResolveAll(config, files, options.dmmf.modelOperations)
        /\ generatedSchemaFiles' = generatedSchemaFiles \o RefsOf(files, "schema")
        /\ generatedSchemaObjectFiles' = generatedSchemaObjectFiles \o RefsOf(files, "object")
        /\ generatedSchemaEnumFiles' = generatedSchemaEnumFiles \o RefsOf(files, "enum")
        /\ produced' = [ schema |-> produced.schema \o RefsOf(files, "schema"),
                         object |-> produced.object \o RefsOf(files, "object"),
                         enum   |-> produced.enum \o RefsOf(files, "enum") ]
  /\ completed' = Append(completed, running)
  /\ running' = "none"
  /\ nextIndex' = nextIndex + 1
  /\ UNCHANGED << previous, objectVars, requiredDirectories, options, config, pc, error, runs, registry, registryConfig,
                  customized, generationOrder, started, enumNames,
                  transformerConfig, indexFiles, cleared, dirsCreated >>

\* the message of the error a generator raises when a write fails
GeneratorError == "Failed to write file"

\* the catch of executeGeneration with the rethrow left out: the loop goes on
GeneratorFail_swallowed ==
  /\ pc = "generating"
  /\ running # "none"
  /\ error' = GeneratorError
  /\ running' = "none"
  /\ nextIndex' = nextIndex + 1
  /\ UNCHANGED << previous, objectVars, pathVars, options, config, pc, runs, registry, registryConfig,
                  customized, generationOrder, started, completed, staticVars,
                  transformerConfig, outputVars, cleared, dirsCreated >>

\* the awaited generator throws at one of its writes: the files before it are
\* written and tracked, executeGeneration logs and rethrows, and so does
\* generate()
GeneratorFail ==
  /\ pc = "generating"
  /\ running # "none"
  /\ LET files == Repeat(GeneratorFiles(registry[running], running, options.dmmf,
                                        config.enabledTypes,
                                        transformerConfig.enabledTypes),
                         GeneratorCalls(registry, running, options.dmmf.models))
     IN \E k \in 0..(IF files = <<>> THEN 0 ELSE Len(files) - 1) :
          LET before == SubSeq(files, 1, k)
          IN /\ disk' = disk \cup SeqToSet(before)
             /\ written' = written \o before
             /\ filePaths' = filePaths \o ResolveAll(config, before, options.dmmf.modelOperations)
             /\ generatedSchemaFiles' = generatedSchemaFiles \o RefsOf(before, "schema")
             /\ generatedSchemaObjectFiles' =
                  generatedSchemaObjectFiles \o RefsOf(before, "object")
             /\ generatedSchemaEnumFiles' = generatedSchemaEnumFiles \o RefsOf(before, "enum")
             /\ produced' = [ schema |-> produced.schema \o RefsOf(before, "schema"),
                              object |-> produced.object \o RefsOf(before, "object"),
                              enum   |-> produced.enum \o RefsOf(before, "enum") ]
  /\ pc' = "failed"
  /\ error' = GeneratorError
  /\ UNCHANGED << previous, objectVars, requiredDirectories, options, config, runs, registryVars,
                  enumNames, transformerConfig, indexFiles, cleared, dirsCreated >>

\* the loop is over: executeGeneration returns
ExecuteGenerationEnd ==
  /\ pc = "generating"
  /\ running = "none"
  /\ nextIndex > Len(generationOrder)
  /\ pc' = "executed"
  /\ UNCHANGED << previous, objectVars, pathVars, options, config, error, runs, registryVars, staticVars,
                  transformerConfig, outputVars, cleared, dirsCreated >>

\* if (config.generateIndex) generateIndex(): three printIndex calls
GenerateIndex ==
  /\ pc = "executed"
  /\ indexFiles' =
       IF config.generateIndex
       THEN [ SCHEMAS        |-> IndexExports(generatedSchemaFiles),
              SCHEMA_OBJECTS |-> IndexExports(generatedSchemaObjectFiles),
              SCHEMA_ENUMS   |-> IndexExports(generatedSchemaEnumFiles) ]
       ELSE indexFiles
  /\ pc' = "done"
  /\ UNCHANGED << previous, objectVars, pathVars, options, config, error, runs, registryVars, staticVars,
                  transformerConfig, disk, written, produced, cleared, dirsCreated >>

(***************************************************************************)
(* registry.ts: the loop of the objects generator over the field reference *)
(* types and the input object types, on the one Transformer of the context *)
(***************************************************************************)
\* transformer.name = type.name; transformer.fields = type.fields;
\* await transformer.printSchemaObjects()
PrintSchemaObjects ==
  /\ pc = "objects"
  /\ pendingObjectTypes # <<>>
  /\ LET type == Head(pendingObjectTypes)
         file == FileInfo("objects", type.name, "object")
     IN /\ transformerName' = type.name
        /\ schemaImports' = ImportsAfter(schemaImports, type.name, type.fields)
        /\ objectModules' =
             Append(objectModules,
                    [ name            |-> type.name,
                      fields          |-> type.fields,
                      schemaImports   |-> schemaImports',
                      imports         |-> getAllSchemaImports(schemaImports', enumNames),
                      joiStringFields |-> JoiStringFields(type.name, type.fields,
                                                          enumNames) ])
        /\ disk' = disk \cup {file}
        /\ written' = Append(written, file)
        /\ filePaths' = filePaths \o ResolveAll(config, <<file>>, <<>>)
        /\ generatedSchemaObjectFiles' =
             Append(generatedSchemaObjectFiles, SchemaRef(type.name))
        /\ produced' = [produced EXCEPT !.object = Append(@, SchemaRef(type.name))]
  /\ pendingObjectTypes' = Tail(pendingObjectTypes)
  /\ UNCHANGED << previous, requiredDirectories, options, config, pc, error, runs, registryVars, enumNames,
                  generatedSchemaFiles, generatedSchemaEnumFiles, transformerConfig,
                  indexFiles, cleared, dirsCreated >>

(***************************************************************************)
(* transformer.ts: printSchemaObjects step by step: the awaited write of    *)
(* the module, then the push of its reference                              *)
(***************************************************************************)
\* mapping, formatting and writeFileSafely succeeded: the file is on disk and
\* printSchemaObjects is about to push
WriteObjectModule ==
  /\ pc = "objects"
  /\ pendingObjectTypes # <<>>
  /\ LET type == Head(pendingObjectTypes)
         file == FileInfo("objects", type.name, "object")
     IN /\ transformerName' = type.name
        /\ schemaImports' = ImportsAfter(schemaImports, type.name, type.fields)
        /\ objectModules' =
             Append(objectModules,
                    [ name            |-> type.name,
                      fields          |-> type.fields,
                      schemaImports   |-> schemaImports',
                      imports         |-> getAllSchemaImports(schemaImports', enumNames),
                      joiStringFields |-> JoiStringFields(type.name, type.fields,
                                                          enumNames) ])
        /\ disk' = disk \cup {file}
        /\ written' = Append(written, file)
        /\ filePaths' = filePaths \o ResolveAll(config, <<file>>, <<>>)
  /\ pc' = "objects-written"
  /\ UNCHANGED << previous, pendingObjectTypes, requiredDirectories, options, config, error, runs,
                  registryVars, staticVars, transformerConfig, indexFiles, produced,
                  cleared, dirsCreated >>

\* the failure of an artifact with the reference pushed all the same
WriteObjectModuleFail_pushes ==
  /\ pc = "objects"
  /\ pendingObjectTypes # <<>>
  /\ LET type == Head(pendingObjectTypes)
     IN /\ transformerName' = type.name
        /\ schemaImports' = ImportsAfter(schemaImports, type.name, type.fields)
        /\ generatedSchemaObjectFiles' =
             Append(generatedSchemaObjectFiles, SchemaRef(type.name))
        /\ produced' = [produced EXCEPT !.object = Append(@, SchemaRef(type.name))]
  /\ pc' = "failed"
  /\ error' = GeneratorError
  /\ UNCHANGED << previous, pendingObjectTypes, objectModules, pathVars, options, config, runs,
                  registryVars, enumNames, generatedSchemaFiles, generatedSchemaEnumFiles,
                  transformerConfig, disk, indexFiles, written, cleared, dirsCreated >>

\* formatting or writing fails inside writeFileSafely, which rethrows: the
\* mapping has run, nothing is written and printSchemaObjects does not push
WriteObjectModuleFail ==
  /\ pc = "objects"
  /\ pendingObjectTypes # <<>>
  /\ LET type == Head(pendingObjectTypes)
     IN /\ transformerName' = type.name
        /\ schemaImports' = ImportsAfter(schemaImports, type.name, type.fields)
  /\ pc' = "failed"
  /\ error' = GeneratorError
  /\ UNCHANGED << previous, pendingObjectTypes, objectModules, pathVars, options, config, runs,
                  registryVars, staticVars, transformerConfig, outputVars, cleared,
                  dirsCreated >>

\* Transformer.generatedSchemaObjectFiles.push, then the loop of the objects
\* generator goes on
PushObjectModule ==
  /\ pc = "objects-written"
  /\ LET type == Head(pendingObjectTypes)
     IN /\ generatedSchemaObjectFiles' =
             Append(generatedSchemaObjectFiles, SchemaRef(type.name))
        /\ produced' = [produced EXCEPT !.object = Append(@, SchemaRef(type.name))]
  /\ pendingObjectTypes' = Tail(pendingObjectTypes)
  /\ pc' = "objects"
  /\ UNCHANGED << previous, instanceVars, objectModules, pathVars, options, config, error, runs,
                  registryVars, enumNames, generatedSchemaFiles, generatedSchemaEnumFiles,
                  transformerConfig, disk, indexFiles, written, cleared, dirsCreated >>

(***************************************************************************)
(* Specifications                                                          *)
(***************************************************************************)
NoPrevious == [pc |-> "idle", options |-> NoOptions, disk |-> {}, indexFiles |-> NoIndexFiles]

InitCommon ==
  /\ previous = NoPrevious
  /\ error = ""
  /\ registry = registerBuiltInTypes
  /\ registryConfig = UnsetConfig
  /\ customized = FALSE
  /\ generationOrder = <<>>
  /\ nextIndex = 1
  /\ running = "none"
  /\ started = <<>>
  /\ completed = <<>>
  /\ enumNames = <<>>
  /\ generatedSchemaFiles = <<>>
  /\ generatedSchemaObjectFiles = <<>>
  /\ generatedSchemaEnumFiles = <<>>
  /\ indexFiles = NoIndexFiles
  /\ written = <<>>
  /\ produced = NoProduced
  /\ cleared = FALSE
  /\ dirsCreated = FALSE
  /\ transformerName = ""
  /\ schemaImports = <<>>
  /\ pendingObjectTypes = <<>>
  /\ objectModules = <<>>
  /\ requiredDirectories = <<>>
  /\ filePaths = <<>>

\* a fresh process: generate() has not been called
Init ==
  /\ InitCommon
  /\ options = NoOptions
  /\ config = NotParsed
  /\ pc = "idle"
  /\ runs = 0
  /\ transformerConfig = UnsetConfig
  /\ disk = StaleDisk

Next ==
  \/ \E cfg \in GenerateConfigs, client \in BOOLEAN, dmmf \in DmmfChoices :
       Invoke([config |-> cfg, clientGenerator |-> client, dmmf |-> dmmf])
  \/ ParseConfig
  \/ HandleGeneratorOutputValue
  \/ CheckClientGenerator
  \/ PrepareGeneration
  \/ ExecuteGenerationBegin
  \/ GeneratorStart
  \/ GeneratorFinish
  \/ ExecuteGenerationEnd
  \/ GenerateIndex

Spec == Init /\ [][Next]_vars

\* parseGeneratorConfig alone, over the raw configurations
InitConfig ==
  /\ InitCommon
  /\ options \in {[NoOptions EXCEPT !.config = raw] : raw \in RawConfigs}
  /\ config = NotParsed
  /\ pc = "start"
  /\ runs = 1
  /\ transformerConfig = UnsetConfig
  /\ disk = StaleDisk

NextConfig == ParseConfig

SpecConfig == InitConfig /\ [][NextConfig]_vars

\* executeGeneration alone, on a registry a caller may have extended and a
\* context whose configuration enables any of the sets
InitRegistry ==
  /\ InitCommon
  /\ options = NoOptions
  /\ config \in {ValidatedWith(enabled) : enabled \in EnabledChoices}
  /\ pc = "exec"
  /\ runs = 1
  /\ transformerConfig = [set |-> TRUE, enabledTypes |-> config.enabledTypes]
  /\ disk = {}

NextRegistry ==
  \/ \E type \in CustomTypes, priority \in PriorityChoices,
        dependencies \in DependencyChoices :
       Register(type, priority, dependencies)
  \/ ExecuteGenerationBegin
  \/ GeneratorStart
  \/ GeneratorFinish
  \/ ExecuteGenerationEnd

SpecRegistry == InitRegistry /\ [][NextRegistry]_vars

\* the objects generator is entered: the context holds a new Transformer and
\* Transformer.enumNames is set
InitObjectsGenerator ==
  /\ previous = NoPrevious
  /\ options = NoOptions
  /\ config = ValidatedWith(JoiFileType)
  /\ pc = "objects"
  /\ error = ""
  /\ runs = 1
  /\ registry = registerBuiltInTypes
  /\ registryConfig = [set |-> TRUE, enabledTypes |-> JoiFileType]
  /\ customized = FALSE
  /\ generationOrder = <<"enums", "objects">>
  /\ nextIndex = 2
  /\ running = "objects"
  /\ started = <<"enums", "objects">>
  /\ completed = <<"enums">>
  /\ enumNames = ObjectEnumNames
  /\ generatedSchemaFiles = <<>>
  /\ generatedSchemaObjectFiles = <<>>
  /\ generatedSchemaEnumFiles = <<>>
  /\ transformerConfig = [set |-> TRUE, enabledTypes |-> JoiFileType]
  /\ disk = {}
  /\ indexFiles = NoIndexFiles
  /\ written = <<>>
  /\ produced = NoProduced
  /\ cleared = TRUE
  /\ dirsCreated = TRUE
  /\ transformerName = ""
  /\ schemaImports = <<>>
  /\ objectModules = <<>>
  /\ requiredDirectories = getRequiredDirectories(config, <<"User", "Post">>)
  /\ filePaths = <<>>

\* printSchemaObjects on the type UserWhereInput with one field
InitFields ==
  /\ InitObjectsGenerator
  /\ pendingObjectTypes \in
       {<<[name |-> "UserWhereInput", fields |-> <<f>>]>> : f \in FieldChoices}

NextFields == PrintSchemaObjects

SpecFields == InitFields /\ [][NextFields]_vars

\* the objects generator over a list of input object types
InitObjects ==
  /\ InitObjectsGenerator
  /\ pendingObjectTypes \in ObjectTypeLists

NextObjects == PrintSchemaObjects

SpecObjects == InitObjects /\ [][NextObjects]_vars

\* generate() once, over the directory layouts
InitPaths ==
  /\ InitCommon
  /\ options \in {[config |-> raw, clientGenerator |-> TRUE, dmmf |-> dmmf] :
                    raw \in PathRawConfigs, dmmf \in DmmfChoices}
  /\ config = NotParsed
  /\ pc = "start"
  /\ runs = 1
  /\ transformerConfig = UnsetConfig
  /\ disk = StaleDisk

NextPaths ==
  \/ ParseConfig
  \/ HandleGeneratorOutputValue
  \/ CheckClientGenerator
  \/ PrepareGeneration
  \/ ExecuteGenerationBegin
  \/ GeneratorStart
  \/ GeneratorFinish
  \/ ExecuteGenerationEnd
  \/ GenerateIndex

SpecPaths == InitPaths /\ [][NextPaths]_vars

\* generate() once, over descriptions at and above the batching threshold
InitBatches ==
  /\ InitCommon
  /\ options \in {[config |-> raw, clientGenerator |-> TRUE, dmmf |-> dmmf] :
                    raw \in GenerateConfigs, dmmf \in ManyModelDmmfs}
  /\ config = NotParsed
  /\ pc = "start"
  /\ runs = 1
  /\ transformerConfig = UnsetConfig
  /\ disk = StaleDisk

NextBatches ==
  \/ ParseConfig
  \/ HandleGeneratorOutputValue
  \/ CheckClientGenerator
  \/ PrepareGeneration
  \/ ExecuteGenerationBegin
  \/ GeneratorStart
  \/ GeneratorFinish
  \/ ExecuteGenerationEnd
  \/ GenerateIndex

SpecBatches == InitBatches /\ [][NextBatches]_vars

\* generate() once, with generators that may fail at a write
InitFailures ==
  /\ InitCommon
  /\ options \in {[config |-> raw, clientGenerator |-> TRUE, dmmf |-> dmmf] :
                    raw \in GenerateConfigs, dmmf \in DmmfChoices}
  /\ config = NotParsed
  /\ pc = "start"
  /\ runs = 1
  /\ transformerConfig = UnsetConfig
  /\ disk = StaleDisk

NextFailures ==
  \/ ParseConfig
  \/ HandleGeneratorOutputValue
  \/ CheckClientGenerator
  \/ PrepareGeneration
  \/ ExecuteGenerationBegin
  \/ GeneratorStart
  \/ GeneratorFinish
  \/ GeneratorFail
  \/ ExecuteGenerationEnd
  \/ GenerateIndex

SpecFailures == InitFailures /\ [][NextFailures]_vars

\* the objects generator with the write and the push as separate steps and
\* writes that may fail
InitWrites == InitObjects

NextWrites ==
  \/ WriteObjectModule
  \/ WriteObjectModuleFail
  \/ PushObjectModule

SpecWrites == InitWrites /\ [][NextWrites]_vars

\* printSchemaObjects on one type without fields, over the names
InitNames ==
  /\ InitObjectsGenerator
  /\ pendingObjectTypes \in {<<[name |-> n, fields |-> <<>>]>> : n \in NameChoices}

NextNames == PrintSchemaObjects

SpecNames == InitNames /\ [][NextNames]_vars

(***************************************************************************)
(* Properties                                                              *)
(***************************************************************************)
\* C1: whenever executeGeneration enters the generator of a type, no other
\* generator is running and the generator of every declared dependency of
\* that type has already completed.
C1_DependenciesCompleteBeforeStart ==
  [][ Len(started') = Len(started) + 1 =>
        /\ running = "none"
        /\ \A d \in SeqToSet(registry[started'[Len(started')]].dependencies) :
             d \in SeqToSet(completed) ]_vars

\* a run completed in which a type ran after a dependency whose priority
\* alone would have placed it later
C1_Witness ==
  /\ pc = "executed"
  /\ \E t \in SeqToSet(completed) :
       \E d \in SeqToSet(registry[t].dependencies) :
         /\ d \in SeqToSet(completed)
         /\ registry[d].priority > registry[t].priority

\* the (type, dependency) pairs with the type enabled and the dependency not
MissingPairs ==
  {p \in JoiFileType \X JoiFileType :
     /\ p[1] \in config.enabledTypes
     /\ p[2] \in SeqToSet(registry[p[1]].dependencies)
     /\ p[2] \notin config.enabledTypes}

ContextRegistryConfig == [set |-> TRUE, enabledTypes |-> config.enabledTypes]

\* C2: validateDependencies returns exactly one error per (enabled type,
\* dependency that is not enabled) pair, so none when every dependency is
\* enabled; and once executeGeneration has met such a pair the run has failed
\* with the dependency error, no generator was entered and nothing was
\* written or tracked.
C2_MissingDependencyFailsRun ==
  /\ LET errors == validateDependencies(registry, ContextRegistryConfig)
     IN /\ Len(errors) = Cardinality(MissingPairs)
        /\ {<<errors[i].type, errors[i].dep>> : i \in 1..Len(errors)} = MissingPairs
  /\ (registryConfig.set /\ MissingPairs # {}) =>
       /\ pc = "failed"
       /\ error = "Dependency validation failed"
       /\ started = <<>>
       /\ written = <<>>
       /\ disk = {}
       /\ produced = NoProduced
       /\ generatedSchemaFiles = <<>>
       /\ generatedSchemaObjectFiles = <<>>
       /\ generatedSchemaEnumFiles = <<>>

\* executeGeneration failed on a type with two dependencies of which only
\* the second is not enabled
C2_Witness ==
  /\ pc = "failed"
  /\ error = "Dependency validation failed"
  /\ \E t \in config.enabledTypes :
       /\ Len(registry[t].dependencies) = 2
       /\ registry[t].dependencies[1] \in config.enabledTypes
       /\ registry[t].dependencies[2] \notin config.enabledTypes

NoDuplicates(s) == \A i, j \in 1..Len(s) : s[i] = s[j] => i = j

\* C3: when the index writer is about to consult them, the three tracked
\* lists hold exactly the references pushed by the current invocation.
C3_RegistriesResetPerRun ==
  pc = "executed" =>
    /\ generatedSchemaFiles = produced.schema
    /\ generatedSchemaObjectFiles = produced.object
    /\ generatedSchemaEnumFiles = produced.enum

\* C4: after the first complete run with the default configuration the three
\* index files together hold as many exports as modules were generated, and
\* none of them exports a module twice.
C4_EveryModuleTrackedOnce ==
  (pc = "done" /\ runs = 1 /\ options.config = DefaultRaw) =>
    /\ DOMAIN indexFiles = {"SCHEMAS", "SCHEMA_OBJECTS", "SCHEMA_ENUMS"}
    /\ Len(indexFiles["SCHEMAS"]) + Len(indexFiles["SCHEMA_OBJECTS"])
         + Len(indexFiles["SCHEMA_ENUMS"]) = Cardinality(disk)
    /\ NoDuplicates(indexFiles["SCHEMAS"])
    /\ NoDuplicates(indexFiles["SCHEMA_OBJECTS"])
    /\ NoDuplicates(indexFiles["SCHEMA_ENUMS"])

\* the kinds whose flag is absent or parses to true
FlagDefaultEnabled(raw) ==
  {t \in JoiFileType : raw.flags[t] = Undefined \/ parseBooleanString(raw.flags[t])}

\* a configuration that supplies nothing but well-formed per-kind flags
OnlyFlagsSupplied(raw) ==
  /\ raw = [DefaultRaw EXCEPT !.flags = raw.flags]
  /\ \A t \in JoiFileType : raw.flags[t] = Undefined \/ BooleanOk(raw.flags[t])

\* C5: under the selective strategy a kind is enabled if and only if its
\* flag is absent or parses to true; flags for some kinds leave the others
\* enabled.
C5_SelectiveDefaultsToEnabled ==
  (pc # "start" /\ OnlyFlagsSupplied(options.config)
     /\ FlagDefaultEnabled(options.config) # {}) =>
    /\ config.ok
    /\ config.enabledTypes = FlagDefaultEnabled(options.config)

\* the input object of a model that an input-object kind owns
OwnedInputObject(kind, model) ==
  CASE kind = "filter"    -> model \o "WhereInput"
    [] kind = "orderBy"   -> model \o "OrderByWithRelationInput"
    [] kind = "unchecked" -> model \o "UncheckedCreateInput"

\* C6: after a complete run with 'objects' enabled, the where, orderBy and
\* unchecked input-object module of every model exists if and only if its
\* kind (filter, orderBy, unchecked) is enabled.
C6_InputObjectKindsFiltered ==
  (pc = "done" /\ "objects" \in config.enabledTypes) =>
    \A kind \in {"filter", "orderBy", "unchecked"} :
      \A i \in 1..Len(options.dmmf.models) :
        FileInfo("objects", OwnedInputObject(kind, options.dmmf.models[i]), "object") \in disk
          <=> kind \in config.enabledTypes

\* the file of one operation of one mapping
OperationFile(mapping, key) ==
  FileInfo(key.type, OperationFileName(key.op, mapping.model), "schema")

\* C7: an operation module is never written or tracked unless its operation
\* is in the mapping and its owning kind is enabled; after the generation of
\* a run completed, every operation of every mapping is written and tracked
\* if and only if its owning kind is enabled.
C7_OperationWrittenIffKindEnabled ==
  /\ \A i \in 1..Len(written) :
       written[i].category = "schema" =>
         /\ written[i].type \in config.enabledTypes
         /\ \E m \in 1..Len(options.dmmf.modelOperations), k \in 1..Len(ModelOperationKeys) :
              /\ ModelOperationKeys[k].op \in options.dmmf.modelOperations[m].ops
              /\ written[i] = OperationFile(options.dmmf.modelOperations[m], ModelOperationKeys[k])
  /\ SeqToSet(produced.schema) =
       {SchemaRef(written[i].fileName) : i \in {j \in 1..Len(written) : written[j].category = "schema"}}
  /\ pc \in {"executed", "done"} =>
       \A m \in 1..Len(options.dmmf.modelOperations), k \in 1..Len(ModelOperationKeys) :
         LET mapping == options.dmmf.modelOperations[m]
             key     == ModelOperationKeys[k]
         IN key.op \in mapping.ops =>
              /\ OperationFile(mapping, key) \in disk
                   <=> key.type \in config.enabledTypes
              /\ OperationFile(mapping, key) \in SeqToSet(written)
                   <=> key.type \in config.enabledTypes
              /\ SchemaRef(OperationFileName(key.op, mapping.model)) \in SeqToSet(produced.schema)
                   <=> key.type \in config.enabledTypes

\* a run completed with create enabled and update disabled, for a model that
\* has both operations
C7_Witness ==
  /\ pc = "done"
  /\ "create" \in config.enabledTypes
  /\ "update" \notin config.enabledTypes
  /\ {"createOne", "updateOne"} \subseteq options.dmmf.modelOperations[1].ops
  /\ FileInfo("create", "createOneUser", "schema") \in disk
  /\ FileInfo("update", "updateOneUser", "schema") \notin disk

\* the three inputs that leave no kind enabled
YieldsNoKind(raw) ==
  /\ ~ListTruthy(raw.enabledTypes)
  /\ ~ListTruthy(raw.disabledTypes)
  /\ \/ /\ raw.filterStrategy = "whitelist"
        /\ parseCommaSeparatedTypes(raw.includeTypes) = <<>>
     \/ /\ raw.filterStrategy = "blacklist"
        /\ JoiFileType \subseteq SeqToSet(parseCommaSeparatedTypes(raw.excludeTypes))
     \/ /\ raw.filterStrategy \in {Undefined, "selective"}
        /\ \A t \in JoiFileType :
             raw.flags[t] # Undefined /\ BooleanOk(raw.flags[t])
               /\ ~parseBooleanString(raw.flags[t])

\* C8: a configuration that parsing accepted has a non-empty enabled set,
\* and parsing rejects a whitelist with an empty include list, a blacklist
\* excluding all twelve kinds and a selective block with every flag false.
C8_EnabledSetNeverEmpty ==
  pc # "start" =>
    /\ config.ok => config.enabledTypes # {}
    /\ YieldsNoKind(options.config) => ~config.ok

\* parsing rejected a blacklist that excludes all twelve kinds with the
\* empty-set error
C8_Witness ==
  /\ pc = "failed"
  /\ options.config.filterStrategy = "blacklist"
  /\ SeqToSet(options.config.excludeTypes) = JoiFileType
  /\ options.config.includeTypes = <<>>
  /\ error = "At least one file type must be enabled"

\* the strategy the configuration chose
ChosenStrategy(raw) ==
  IF Truthy(raw.filterStrategy) THEN raw.filterStrategy ELSE "selective"

\* C9: parsing fails when an include list comes with a strategy other than
\* whitelist or an exclude list with a strategy other than blacklist.
C9_InconsistentListRejected ==
  (pc # "start" /\ ~ListTruthy(options.config.enabledTypes)
     /\ ~ListTruthy(options.config.disabledTypes)) =>
    ((\/ ListTruthy(options.config.includeTypes)
           /\ ChosenStrategy(options.config) # "whitelist"
      \/ ListTruthy(options.config.excludeTypes)
           /\ ChosenStrategy(options.config) # "blacklist")
       => ~config.ok)

\* the invalid configurations: bad strategy name, unknown kind, missing
\* required list, empty enabled set, invalid directory name, bad boolean
InvalidConfiguration(raw) ==
  \/ raw.filterStrategy = "bogus"
  \/ "bogus" \in SeqToSet(raw.includeTypes)
  \/ raw.filterStrategy = "whitelist" /\ raw.includeTypes = <<>>
  \/ raw.filterStrategy = "blacklist" /\ SeqToSet(raw.excludeTypes) = JoiFileType
  \/ raw.directories["base"] = DirNameBad
  \/ \E t \in JoiFileType : raw.flags[t] = "maybe"

\* C10: when the configuration is invalid, generate() has failed as soon as
\* parsing is over, and in a run that failed in parsing the output directory
\* was not cleared, no directory was created, no generator was entered and
\* nothing was written or tracked.
C10_InvalidConfigFailsBeforeGeneration ==
  /\ [](/\ (pc \notin {"idle", "start"} /\ InvalidConfiguration(options.config)) =>
            pc = "failed" /\ ~config.ok
        /\ (pc = "failed" /\ ~config.ok) =>
            /\ ~cleared
            /\ ~dirsCreated
            /\ started = <<>>
            /\ written = <<>>
            /\ produced = NoProduced)
  /\ [][(pc = "start" /\ pc' = "failed") =>
          UNCHANGED << disk, indexFiles, cleared, dirsCreated, started, written,
                       produced, staticVars >>]_vars

\* a second invocation failed in parsing and left the modules of the first
\* in the output directory
C10_Witness ==
  /\ pc = "failed"
  /\ ~config.ok
  /\ runs = 2
  /\ InvalidConfiguration(options.config)
  /\ FileInfo("find", "findManyUser", "schema") \in disk

\* C11: when no prisma-client-js / prisma-client generator is configured the
\* run fails with the precondition error, and in a run that failed with it
\* the output directory was not cleared, no directory was created and
\* nothing was written or tracked.
C11_PreconditionFailsBeforeFiles ==
  /\ (pc \notin {"idle", "start", "parsed", "output"} /\ config.ok
        /\ ~options.clientGenerator)
       => pc = "failed" /\ error = PreconditionError
  /\ (pc = "failed" /\ error = PreconditionError)
       => /\ ~cleared
          /\ ~dirsCreated
          /\ written = <<>>
          /\ produced = NoProduced

\* C12: in every object module printed by the objects generator the import
\* set used for the module of type T does not contain T.
C12_NoSelfImport ==
  \A i \in 1..Len(objectModules) :
    ~Includes(objectModules[i].schemaImports, objectModules[i].name)

EndsWith(s, suffix) ==
  Len(s) >= Len(suffix) /\ SubSeq(s, Len(s) - Len(suffix) + 1, Len(s)) = suffix

StartsWith(s, prefix) ==
  Len(s) >= Len(prefix) /\ SubSeq(s, 1, Len(prefix)) = prefix

Contains(s, part) ==
  \E i \in 1..(Len(s) - Len(part) + 1) : SubSeq(s, i, i + Len(part) - 1) = part

\* the modules printed from a type with one field of n candidates
PrintedWithCandidates(m, n) ==
  Len(m.fields) = 1 /\ Len(m.fields[1].inputTypes) = n

\* C13: every expression produced by a single-candidate field ends with
\* '.required()' when the field is required (followed by '.allow(null)' when
\* it is also nullable) and with '.allow(null)' when it is nullable, whatever
\* the type of the candidate.
C13_SingleCandidateMarkers ==
  \A i \in 1..Len(objectModules) :
    LET m == objectModules[i] IN
    PrintedWithCandidates(m, 1) =>
      \A k \in 1..Len(m.joiStringFields) :
        EndsWith(m.joiStringFields[k],
                 (IF m.fields[1].isRequired THEN RequiredMarker ELSE "")
                   \o (IF m.fields[1].isNullable THEN NullableMarker ELSE ""))

RecognisedScalars == {"String", "Int", "Float", "Boolean", "DateTime"}

C15_MultiCandidateIsAlternation ==
  \A i \in 1..Len(objectModules) :
    LET m == objectModules[i] IN
    (Len(m.fields) = 1 /\ Len(m.fields[1].inputTypes) >= 2)
    => /\ Len(m.joiStringFields) <= 1
       /\ \A k \in 1..Len(m.joiStringFields) :
            /\ StartsWith(m.joiStringFields[k],
                          "  " \o m.fields[1].name \o ": Joi.alternatives().try(")
            /\ EndsWith(m.joiStringFields[k], ")")
            /\ ~Contains(m.joiStringFields[k], RequiredMarker)
            /\ ~Contains(m.joiStringFields[k], NullableMarker)

\* a required and nullable field of two candidates was printed as an alternation
C15_Witness ==
  /\ Len(objectModules) = 1
  /\ objectModules[1].fields[1].isRequired
  /\ objectModules[1].fields[1].isNullable
  /\ objectModules[1].fields[1].inputTypes =
       <<InputTypeRef("String", Undefined, FALSE),
         InputTypeRef("UserWhereInput", "prisma", TRUE)>>
  /\ objectModules[1].joiStringFields =
       << "  value: Joi.alternatives().try(Joi.string(),\r\n"
            \o "Joi.array().items(Joi.link('#UserWhereInput')))" >>

\* the validator the single-candidate path gives for a candidate: its line
\* without the leading field name
SingleValidator(thisName, field, inputType, enums) ==
  LET line == SingleCandidateLine(thisName, field, inputType, enums)[1]
      lead == "  " \o field.name \o ": "
  IN SubSeq(line, Len(lead) + 1, Len(line))

\* the single-candidate path recognises the candidate
Recognised(thisName, field, inputType, enums) ==
  SingleCandidateLine(thisName, field, inputType, enums) # <<>>

\* C16: a field of two or more candidates, each of a type the single-candidate
\* path recognises, yields the alternation of the validators the
\* single-candidate path gives for its candidates, one per candidate, in
\* candidate order.
C16_AlternativesFollowSingleDispatch ==
  \A i \in 1..Len(objectModules) :
    LET m == objectModules[i]
        f == m.fields[1]
    IN ( /\ Len(m.fields) = 1
         /\ Len(f.inputTypes) >= 2
         /\ \A c \in 1..Len(f.inputTypes) :
              Recognised(m.name, f, f.inputTypes[c], enumNames) )
       => m.joiStringFields =
            << "  " \o f.name \o ": Joi.alternatives().try("
                 \o Join([c \in 1..Len(f.inputTypes) |->
                            SingleValidator(m.name, f, f.inputTypes[c], enumNames)],
                         JoinSeparator)
                 \o ")" >>

\* the directory of printIndex for each of its three types, under the output path
IndexDirectory(type) ==
  CASE type = "SCHEMAS"        -> <<"schemas">>
    [] type = "SCHEMA_ENUMS"   -> <<"schemas", "enums">>
    [] type = "SCHEMA_OBJECTS" -> <<"schemas", "objects">>

\* the segments of an import path
RECURSIVE SplitPath(_, _, _)
SplitPath(s, i, segment) ==
  IF i > Len(s) THEN <<segment>>
  ELSE IF SubSeq(s, i, i) = "/" THEN <<segment>> \o SplitPath(s, i + 1, "")
  ELSE SplitPath(s, i + 1, segment \o SubSeq(s, i, i))

RECURSIVE Walk(_, _)
Walk(directory, segments) ==
  IF segments = <<>> THEN directory
  ELSE IF Head(segments) = "." THEN Walk(directory, Tail(segments))
  ELSE IF Head(segments) = ".."
  THEN Walk(SubSeq(directory, 1, Len(directory) - 1), Tail(segments))
  ELSE Walk(Append(directory, Head(segments)), Tail(segments))

\* what an import path written in a file of the directory points at
ImportTarget(directory, importPath) == Walk(directory, SplitPath(importPath, 1, ""))

\* the locations of the modules written in this run, and of its index files
WrittenModules == {filePaths[i].resolved.filePath : i \in 1..Len(filePaths)}

WrittenIndexes == {Append(IndexDirectory(type), "index.ts") : type \in DOMAIN indexFiles}

\* a module path resolves to path.ts or to path/index.ts
ResolvesToWritten(target) ==
  \/ Len(target) > 0
       /\ [target EXCEPT ![Len(target)] = @ \o ".ts"] \in WrittenModules \cup WrittenIndexes
  \/ Append(target, "index.ts") \in WrittenModules \cup WrittenIndexes

TrackedFiles(type) ==
  CASE type = "SCHEMAS"        -> generatedSchemaFiles
    [] type = "SCHEMA_ENUMS"   -> generatedSchemaEnumFiles
    [] type = "SCHEMA_OBJECTS" -> generatedSchemaObjectFiles

\* C17: when a run that writes the index files is over, under every directory
\* strategy the import './objects' of each operation module and every
\* re-export path of each index file resolve, from the directory of the file
\* that contains them, to a module or an index written in this run.
C17_ImportPathsResolve ==
  (pc = "done" /\ config.generateIndex) =>
    /\ \A i \in 1..Len(filePaths) :
         filePaths[i].fileInfo.category = "schema" =>
           ResolvesToWritten(ImportTarget(filePaths[i].resolved.directory, "./objects"))
    /\ \A type \in DOMAIN indexFiles :
         \A k \in 1..Len(TrackedFiles(type)) :
           ResolvesToWritten(ImportTarget(IndexDirectory(type), TrackedFiles(type)[k]))

\* C18: the list getRequiredDirectories returned has no duplicates and holds
\* the directory of every module the run writes through resolvePath.
C18_RequiredDirectoriesCoverPlacement ==
  /\ NoDuplicates(requiredDirectories)
  /\ \A i \in 1..Len(filePaths) :
       \E d \in 1..Len(requiredDirectories) :
         requiredDirectories[d] = filePaths[i].resolved.directory

\* the name starts with a known operation prefix and goes on after it
HasOperationPrefix(name) ==
  \E p \in 1..Len(OperationPrefixes) :
    StartsWith(name, OperationPrefixes[p]) /\ Len(name) > Len(OperationPrefixes[p])

\* a known input-type suffix stands in the name after a non-empty lead
HasInputTypeSuffix(name) ==
  \E k \in 1..Len(name) : WordAt(name, k + 1, InputTypeSuffixes)

EndsInSchema(name) == EndsWith(name, "Schema") /\ Len(name) > Len("Schema")

\* C19: extractModelName tries its patterns in order and the first that
\* matches decides. A name that starts with a known operation prefix yields
\* what follows the prefix; otherwise a name in which a known input-type
\* suffix follows a lead yields that lead, which is M for a name made of a
\* model name M and a suffix; otherwise a name ending in Schema yields what
\* precedes it; a name of none of these shapes yields undefined.
C19_ExtractModelNameFirstMatchWins ==
  \A i \in 1..Len(filePaths) :
    LET name   == filePaths[i].fileInfo.fileName
        result == filePaths[i].fileInfo.modelName
    IN filePaths[i].fileInfo.category = "object" =>
         /\ HasOperationPrefix(name) =>
              \E p \in 1..Len(OperationPrefixes) : name = OperationPrefixes[p] \o result
         /\ (~HasOperationPrefix(name) /\ HasInputTypeSuffix(name)) =>
              /\ result # Undefined
              /\ Len(result) > 0
              /\ \E s \in 1..Len(InputTypeSuffixes) :
                   StartsWith(name, result \o InputTypeSuffixes[s])
              /\ \A m \in ModelNameChoices, tail \in {"", "Schema"} :
                   (\E s \in 1..Len(InputTypeSuffixes) :
                      name = m \o InputTypeSuffixes[s] \o tail)
                   => result = m
         /\ (~HasOperationPrefix(name) /\ ~HasInputTypeSuffix(name) /\ EndsInSchema(name)) =>
              name = result \o "Schema"
         /\ (~HasOperationPrefix(name) /\ ~HasInputTypeSuffix(name) /\ ~EndsInSchema(name)) =>
              result = Undefined

\* findManyPost was resolved and its model name is Post
C19_Witness ==
  \E i \in 1..Len(filePaths) :
    /\ filePaths[i].fileInfo.fileName = "findManyPost"
    /\ filePaths[i].fileInfo.modelName = "Post"

\* C20: for a per-model type and more than ten models, the batched
\* processing of the type writes the files and appends the tracked entries
\* that one call of its generator on the full context gives, in the same
\* order and each once, and leaves the options of the context as they were.
C20_BatchedEqualsUnbatched ==
  [][ ( /\ Len(completed') = Len(completed) + 1
        /\ registry[running].perModel
        /\ Len(options.dmmf.models) > BatchThreshold )
      =>
      LET unbatched == GeneratorFiles(registry[running], running, options.dmmf,
                                      config.enabledTypes,
                                      transformerConfig.enabledTypes)
      IN /\ disk' = disk \cup SeqToSet(unbatched)
         /\ written' = written \o unbatched
         /\ generatedSchemaFiles' = generatedSchemaFiles \o RefsOf(unbatched, "schema")
         /\ options' = options
         /\ config' = config ]_vars

IsPrefixOf(s, t) == Len(s) <= Len(t) /\ SubSeq(t, 1, Len(s)) = s

\* C21: when the generator of a kind fails, the run stops with the error
\* raised: from then on no generator is entered and none completes, and the
\* files and the tracked entries of the kinds before it stay as they are.
C21_GeneratorFailureStopsRun ==
  [][ /\ (error # GeneratorError /\ error' = GeneratorError) =>
           /\ pc' = "failed"
           /\ started' = started
           /\ completed' = completed
           /\ disk \subseteq disk'
           /\ IsPrefixOf(written, written')
           /\ IsPrefixOf(generatedSchemaFiles, generatedSchemaFiles')
           /\ IsPrefixOf(generatedSchemaObjectFiles, generatedSchemaObjectFiles')
           /\ IsPrefixOf(generatedSchemaEnumFiles, generatedSchemaEnumFiles')
      /\ error = GeneratorError =>
           /\ pc' = "failed"
           /\ error' = GeneratorError
           /\ started' = started
           /\ completed' = completed
           /\ disk' = disk
           /\ written' = written
           /\ indexFiles' = indexFiles
           /\ staticVars' = staticVars ]_vars

\* the generator of a kind failed after an earlier kind wrote its files, with
\* kinds still to come in the order
C21_Witness ==
  /\ pc = "failed"
  /\ error = GeneratorError
  /\ completed # <<>>
  /\ written # <<>>
  /\ nextIndex < Len(generationOrder)
  /\ Len(started) = Len(completed) + 1

IndexTypes == {"SCHEMAS", "SCHEMA_OBJECTS", "SCHEMA_ENUMS"}

\* C22: when a run is over, with index generation enabled each of the three
\* index files holds one export line per entry of its tracked list, for the
\* same entries in the recorded order; with index generation disabled no
\* index file is in the output directory.
C22_IndexReexportsTrackedLists ==
  pc = "done" =>
    IF config.generateIndex
    THEN /\ DOMAIN indexFiles = IndexTypes
         /\ \A type \in IndexTypes :
              /\ Len(indexFiles[type]) = Len(TrackedFiles(type))
              /\ \A i \in 1..Len(TrackedFiles(type)) :
                   indexFiles[type][i] = "export * from '" \o TrackedFiles(type)[i] \o "';"
    ELSE DOMAIN indexFiles = {}

\* a run with index generation is over whose three tracked lists are not
\* empty and whose schema list names a module more than once
C22_Witness ==
  /\ pc = "done"
  /\ config.generateIndex
  /\ DOMAIN indexFiles = IndexTypes
  /\ \A type \in IndexTypes : Len(indexFiles[type]) > 0
  /\ ~NoDuplicates(generatedSchemaFiles)

\* C23: when an invocation is over whose description and configuration are
\* those of the invocation before it, which was also completed, the output
\* directory holds the same files with the same index contents as that
\* invocation left.
C23_RerunGivesIdenticalFiles ==
  ( /\ pc = "done"
    /\ previous.pc = "done"
    /\ previous.options = options )
  => /\ disk = previous.disk
     /\ indexFiles = previous.indexFiles

\* the symbols reachable through the schemas index: those of the operation
\* modules it re-exports that are in the output directory
SchemasIndexSymbols ==
  UNION { ExportedSymbols(file.fileName, options.dmmf.modelOperations) :
            file \in { f \in disk :
                         /\ f.category = "schema"
                         /\ "export * from '" \o SchemaRef(f.fileName) \o "';"
                              \in SeqToSet(indexFiles["SCHEMAS"]) } }

WantedSymbol(mapping, op, type, exportName) ==
  (op \in mapping.ops /\ type \in config.enabledTypes)
    => addExportSchema(mapping.model \o exportName) \in SchemasIndexSymbols

\* C24: when a run with index generation is over, the schemas index exports,
\* for every model M that has the operation and whose kind is enabled, the
\* symbols MCreateSchema, MFindManySchema, MUpdateSchema and MDeleteSchema.
C24_IndexExportsOperationSchemas ==
  (pc = "done" /\ config.generateIndex) =>
    \A i \in 1..Len(options.dmmf.modelOperations) :
      LET mapping == options.dmmf.modelOperations[i]
      IN /\ WantedSymbol(mapping, "createOne", "create", "Create")
         /\ WantedSymbol(mapping, "findMany", "find", "FindMany")
         /\ WantedSymbol(mapping, "updateOne", "update", "Update")
         /\ WantedSymbol(mapping, "deleteOne", "delete", "Delete")

\* the four symbols under the names the modules do export them
OperationSymbolsAsWritten ==
  (pc = "done" /\ config.generateIndex) =>
    \A i \in 1..Len(options.dmmf.modelOperations) :
      LET mapping == options.dmmf.modelOperations[i]
      IN /\ WantedSymbol(mapping, "createOne", "create", "Create")
         /\ WantedSymbol(mapping, "findMany", "find", "FindMany")
         /\ WantedSymbol(mapping, "updateOne", "update", "UpdateOne")
         /\ WantedSymbol(mapping, "deleteOne", "delete", "DeleteOne")

\* C25: in a configuration that parsed and validated, every directory name
\* that was not supplied is the documented default whichever other names were
\* supplied, and the run never joins an undefined directory name.
C25_DirectoryDefaultsIndependent ==
  (pc # "start" /\ config.ok) =>
    /\ \A key \in SeqToSet(DirectoryKeys) :
         key \notin SuppliedDirectories(options.config) =>
           DirectoryName(config, key) = Str(DEFAULT_CONFIG.directories[key])
    /\ error # PathTypeError

\* the enabled kinds a kind depends on, directly
EnabledDependencies(type) ==
  SeqToSet(registry[type].dependencies) \cap config.enabledTypes

\* the kinds reached from a set of kinds along enabled dependencies
RECURSIVE DependsOnClosure(_)
DependsOnClosure(S) ==
  LET next == S \cup UNION {EnabledDependencies(t) : t \in S}
  IN IF next = S THEN S ELSE DependsOnClosure(next)

DependsOn(a, b) ==
  EnabledDependencies(a) # {} /\ b \in DependsOnClosure(EnabledDependencies(a))

DependencyCycle == \E t \in config.enabledTypes : DependsOn(t, t)

OrderOfEnabled ==
  getGenerationOrder(registry, [set |-> TRUE, enabledTypes |-> config.enabledTypes])

\* C26: for the registry and the enabled kinds of every state,
\* getGenerationOrder throws exactly when the declared dependencies among the
\* enabled kinds contain a cycle, a kind depending on itself included;
\* otherwise it returns an order (its evaluation ends in either case).
C26_CycleRaisesError ==
  config.ok =>
    /\ OrderOfEnabled.thrown <=> DependencyCycle
    /\ ~OrderOfEnabled.thrown => Len(OrderOfEnabled.sorted) <= Cardinality(JoiFileType)

\* executeGeneration failed on a cycle of two kinds, neither depending on
\* itself
C26_Witness ==
  /\ pc = "failed"
  /\ error = "Circular dependency detected"
  /\ DependencyCycle
  /\ \A t \in config.enabledTypes : t \notin EnabledDependencies(t)

\* C27: when executeGeneration has returned, the generation order holds every
\* enabled registered kind once and no other kind, and the loop entered the
\* generators in exactly that order, each once, completing each.
C27_OrderIsPermutationOfEnabled ==
  pc = "executed" =>
    /\ NoDuplicates(generationOrder)
    /\ SeqToSet(generationOrder) = config.enabledTypes \cap DOMAIN registry
    /\ started = generationOrder
    /\ completed = generationOrder

\* a run over a proper subset of the kinds returned after entering more than
\* one generator
C27_Witness ==
  /\ pc = "executed"
  /\ Len(started) > 1
  /\ config.enabledTypes # JoiFileType
  /\ customized

PositionIn(s, x) == CHOOSE i \in 1..Len(s) : s[i] = x

\* C28: for the registry and the enabled kinds of every state in which
\* getGenerationOrder returns an order, two enabled kinds neither of which
\* depends on the other, directly or transitively, stand in the order of
\* their priorities: the one with the lower priority comes first.
C28_PriorityOrdersUnconstrained ==
  (config.ok /\ ~OrderOfEnabled.thrown) =>
    \A a, b \in config.enabledTypes :
      ( /\ ~DependsOn(a, b)
        /\ ~DependsOn(b, a)
        /\ registry[a].priority < registry[b].priority )
      => PositionIn(OrderOfEnabled.sorted, a) < PositionIn(OrderOfEnabled.sorted, b)

OwnReferences(name, fields) ==
  { fields[i].inputTypes[j].type :
      <<i, j>> \in { p \in (1..Len(fields)) \X (1..MaxCandidates) :
                       /\ p[2] <= Len(fields[p[1]].inputTypes)
                       /\ fields[p[1]].inputTypes[p[2]].namespace = "prisma"
                       /\ fields[p[1]].inputTypes[p[2]].type # name } }

\* C30: the modules imported by the file of a type are the distinct other
\* types its own fields refer to, whichever types the objects generator
\* printed before it.
C30_ImportsDependOnOwnFieldsOnly ==
  \A i \in 1..Len(objectModules) :
    SeqToSet(objectModules[i].schemaImports)
      = OwnReferences(objectModules[i].name, objectModules[i].fields)

\* the first type printed imports what its own fields refer to
FirstModuleImportsOwnReferences ==
  Len(objectModules) > 0 =>
    SeqToSet(objectModules[1].schemaImports)
      = OwnReferences(objectModules[1].name, objectModules[1].fields)

====
